---- MODULE Spec2Model ----
(***************************************************************************)
(* A model of the stand-alone Bdd of ruddy's v2 module and of the coupled  *)
(* depth-first apply algorithm of                                          *)
(* src/v2/_impl_/bdd/binary_operations/u32/mod.rs: the generic function     *)
(* _u32_apply, the macro apply_u32! and the eight operations built on it.   *)
(*                                                                         *)
(* A node is the triple <<variable, low, high>>; a node id i addresses      *)
(* nodes[i + 1] (TLA+ sequences start at 1, Rust vectors at 0). The two     *)
(* words a node is packed into, the texts the parsers read, the size       *)
(* limits of apply and the comparison of sort_preorder_safe with           *)
(* sort_preorder are modelled in sections of their own towards the end.    *)
(***************************************************************************)
EXTENDS Integers, Sequences, FiniteSets, TLC

(***************************************************************************)
(* Bounds of the enumerated inputs.                                        *)
(***************************************************************************)
\* Variables of the enumerated input diagrams are 0 .. NumVars - 1.
NumVars == 2
\* Largest number of decision nodes of an enumerated left operand.
MaxLeftNodes == 2
\* Largest number of decision nodes of an enumerated right operand.
MaxRightNodes == 2
\* The largest number of consecutive calls of a sorting function.
MaxSortCalls == 3

(***************************************************************************)
(* NodeId, VariableId and BddNode (src/v2/mod.rs).                         *)
(***************************************************************************)
\* NodeId::ZERO
NodeId_ZERO == 0
\* NodeId::ONE
NodeId_ONE == 1
\* NodeId::UNDEFINED is u64::MAX in the source; the model only needs a value
\* that is no index of any node array, and uses -1.
NodeId_UNDEFINED == -1
\* VariableId::UNDEFINED is u16::MAX.
VariableId_UNDEFINED == 65535

is_undefined(id) == id = NodeId_UNDEFINED
is_zero(id) == id = NodeId_ZERO
is_one(id) == id = NodeId_ONE

\* BddNode::pack: the variable goes to the top 16 bits of the first word, low
\* to its bottom 48 bits, high to the second word. Variables are below 2^16
\* and ids below 2^48 here, so the three fields never overlap.
BddNode_pack(variable, low, high) == <<variable, low, high>>
\* BddNode::unpack
BddNode_unpack(node) == [variable |-> node[1], low |-> node[2], high |-> node[3]]
BddNode_ZERO == BddNode_pack(VariableId_UNDEFINED, NodeId_ZERO, NodeId_ZERO)
BddNode_ONE == BddNode_pack(VariableId_UNDEFINED, NodeId_ONE, NodeId_ONE)

Min(a, b) == IF a <= b THEN a ELSE b
Max(a, b) == IF a >= b THEN a ELSE b

(***************************************************************************)
(* Bdd (src/v2/mod.rs).                                                    *)
(***************************************************************************)
node_count(bdd) == Len(bdd.nodes)
variable_count(bdd) == bdd.variable_count
root_node(bdd) == Len(bdd.nodes) - 1
new_false == [variable_count |-> 0, nodes |-> <<BddNode_ZERO>>]
true_with_capacity == [variable_count |-> 0, nodes |-> <<BddNode_ZERO, BddNode_ONE>>]
new_variable(variable) ==
    [variable_count |-> variable + 1,
     nodes |-> <<BddNode_ZERO, BddNode_ONE,
                 BddNode_pack(variable, NodeId_ZERO, NodeId_ONE)>>]
\* A slip: the variable count is left as it was.
update_variable_count_keeps(bdd, variables) == bdd

update_variable_count(bdd, variables) ==
    [bdd EXCEPT !.variable_count = Max(bdd.variable_count, variables)]
get_node_unchecked(bdd, id) == bdd.nodes[id + 1]
get_variable(bdd, id) == bdd.nodes[id + 1][1]

\* A cell of the new node array that sort_preorder has not written: set_len
\* makes it part of the vector without initialising it.
BddNode_uninitialized == <<VariableId_UNDEFINED, NodeId_UNDEFINED, NodeId_UNDEFINED>>

\* A slip: the low child is pushed under the high child, so that the nodes
\* below the high child are numbered first.
RECURSIVE sort_preorder_search_high_first(_, _, _, _, _, _)
sort_preorder_search_high_first(nodes, stack, new_id, new_index, capacity, out_of_bounds) ==
    IF Len(stack) = 0
    THEN [new_id |-> new_id, new_index |-> new_index, out_of_bounds |-> out_of_bounds]
    ELSE LET top == stack[Len(stack)]
             rest == SubSeq(stack, 1, Len(stack) - 1)
         IN IF is_one(top) \/ is_zero(top)
            THEN sort_preorder_search_high_first(nodes, rest, new_id, new_index,
                                                 capacity, out_of_bounds)
            ELSE IF new_id[top + 1] = 0
            THEN sort_preorder_search_high_first(
                    nodes,
                    rest \o <<nodes[top + 1][2], nodes[top + 1][3]>>,
                    [new_id EXCEPT ![top + 1] = new_index],
                    new_index - 1,
                    capacity,
                    out_of_bounds \/ Len(rest) + 1 >= capacity)
            ELSE sort_preorder_search_high_first(nodes, rest, new_id, new_index,
                                                 capacity, out_of_bounds)

\* The search of sort_preorder. `stack` holds the entries below
\* stack_index_after_last, `capacity` is the length of the vector behind it;
\* `out_of_bounds` records an unchecked write at or beyond that length.
RECURSIVE sort_preorder_search(_, _, _, _, _, _)
sort_preorder_search(nodes, stack, new_id, new_index, capacity, out_of_bounds) ==
    IF Len(stack) = 0
    THEN [new_id |-> new_id, new_index |-> new_index, out_of_bounds |-> out_of_bounds]
    ELSE LET top == stack[Len(stack)]
             rest == SubSeq(stack, 1, Len(stack) - 1)
         IN IF is_one(top) \/ is_zero(top)
            THEN sort_preorder_search(nodes, rest, new_id, new_index, capacity,
                                      out_of_bounds)
            ELSE IF new_id[top + 1] = 0
            THEN sort_preorder_search(
                    nodes,
                    rest \o <<nodes[top + 1][3], nodes[top + 1][2]>>,
                    [new_id EXCEPT ![top + 1] = new_index],
                    new_index - 1,
                    capacity,
                    out_of_bounds \/ Len(rest) + 1 >= capacity)
            ELSE sort_preorder_search(nodes, rest, new_id, new_index, capacity,
                                      out_of_bounds)

\* A slip: the links of a node are copied as they are, not renamed.
RECURSIVE sort_preorder_write_old_links(_, _, _, _)
sort_preorder_write_old_links(nodes, new_id, new_nodes, old_index) ==
    IF old_index >= Len(nodes)
    THEN new_nodes
    ELSE sort_preorder_write_old_links(
            nodes, new_id,
            [new_nodes EXCEPT ![new_id[old_index + 1] + 1] = nodes[old_index + 1]],
            old_index + 1)

\* The loop that writes the nodes at their new indices, from old_index on.
RECURSIVE sort_preorder_write(_, _, _, _)
sort_preorder_write(nodes, new_id, new_nodes, old_index) ==
    IF old_index >= Len(nodes)
    THEN new_nodes
    ELSE sort_preorder_write(
            nodes, new_id,
            [new_nodes EXCEPT ![new_id[old_index + 1] + 1] =
                BddNode_pack(nodes[old_index + 1][1],
                             new_id[nodes[old_index + 1][2] + 1],
                             new_id[nodes[old_index + 1][3] + 1])],
            old_index + 1)

\* The length of the stack vector of sort_preorder.
sort_preorder_stack_length(bdd) == 3 * variable_count(bdd)

\* Bdd::sort_preorder: the Bdd it leaves, and whether an unchecked write of
\* the search went out of the bounds of the stack vector (the Bdd is then the
\* one left if the write and the later read of that cell go through).
sort_preorder(bdd) ==
    IF Len(bdd.nodes) < 2
    THEN [bdd |-> bdd, out_of_bounds |-> FALSE]
    ELSE LET len == Len(bdd.nodes)
             capacity == sort_preorder_stack_length(bdd)
             search == sort_preorder_search(
                          bdd.nodes, <<root_node(bdd)>>,
                          [i \in 1..len |-> IF i = 2 THEN 1 ELSE 0],
                          len - 1, capacity, 0 >= capacity)
             blank == [i \in 1..len |-> IF i = 1 THEN BddNode_ZERO
                                        ELSE IF i = 2 THEN BddNode_ONE
                                        ELSE BddNode_uninitialized]
         IN [bdd |-> [bdd EXCEPT !.nodes =
                        sort_preorder_write(bdd.nodes, search.new_id, blank, 2)],
             out_of_bounds |-> search.out_of_bounds]

(***************************************************************************)
(* The Bdd of src/perf_testing.rs. A PackedBddNode is two words, each a     *)
(* 16-bit variable part above a 48-bit address: <<variable part of word 0,  *)
(* low, variable part of word 1, high>>. A Bdd is [height, nodes].          *)
(***************************************************************************)
\* The number of values of a 16-bit variable part.
perf_variable_part == 65536
\* NodeId::UNDEFINED of perf_testing is 2^48 - 1; the model takes -1.
perf_NodeId_UNDEFINED == -1

perf_ZERO == <<perf_variable_part - 1, 0, perf_variable_part - 1, 0>>
perf_ONE == <<perf_variable_part - 1, 1, perf_variable_part - 1, 1>>

\* Word 0 takes the low 16 bits of the variable, word 1 the next 16 bits.
perf_pack(variable, low_link, high_link) ==
    <<variable % perf_variable_part, low_link,
      (variable \div perf_variable_part) % perf_variable_part, high_link>>

\* Both halves of the variable are read from word 0.
perf_get_variable(node) == node[1] + node[1] * perf_variable_part
perf_get_low_link(node) == node[2]
perf_get_high_link(node) == node[4]
perf_unpack(node) ==
    [variable |-> perf_get_variable(node), low |-> node[2], high |-> node[4]]

perf_from_raw_nodes(nodes) ==
    [height |-> IF Len(nodes) <= 2 THEN 0
                ELSE perf_get_variable(nodes[3]) - perf_get_variable(nodes[Len(nodes)]),
     nodes |-> nodes]

\* Bdd::try_from on the records `records` (triples variable, low, high), of
\* which there is at least one: every record is packed, then the first two
\* nodes are overwritten by the terminals.
perf_try_from(records) ==
    perf_from_raw_nodes(
        [i \in 1..Len(records) |->
            IF i = 1 THEN perf_ZERO
            ELSE IF i = 2 THEN perf_ONE
            ELSE perf_pack(records[i][1], records[i][2], records[i][3])])

\* A slip: the renamed low and high links are packed in each other's place.
RECURSIVE perf_copy_shuffled_from_swapped(_, _, _, _)
perf_copy_shuffled_from_swapped(nodes, shuffle, new_nodes, old_id) ==
    IF old_id >= Len(nodes)
    THEN new_nodes
    ELSE LET old_node == perf_unpack(nodes[old_id + 1])
         IN perf_copy_shuffled_from_swapped(
                nodes, shuffle,
                [new_nodes EXCEPT ![shuffle[old_id + 1] + 1] =
                    perf_pack(old_node.variable,
                              shuffle[old_node.high + 1],
                              shuffle[old_node.low + 1])],
                old_id + 1)

\* copy_shuffled: the node array in which the node at old_id is at
\* shuffle[old_id], its links renamed by shuffle.
RECURSIVE perf_copy_shuffled_from(_, _, _, _)
perf_copy_shuffled_from(nodes, shuffle, new_nodes, old_id) ==
    IF old_id >= Len(nodes)
    THEN new_nodes
    ELSE LET old_node == perf_unpack(nodes[old_id + 1])
         IN perf_copy_shuffled_from(
                nodes, shuffle,
                [new_nodes EXCEPT ![shuffle[old_id + 1] + 1] =
                    perf_pack(old_node.variable,
                              shuffle[old_node.low + 1],
                              shuffle[old_node.high + 1])],
                old_id + 1)

\* A cell of the new vector that copy_shuffled has not written.
perf_uninitialized ==
    <<perf_variable_part, perf_NodeId_UNDEFINED, perf_variable_part, perf_NodeId_UNDEFINED>>

perf_copy_shuffled(bdd, shuffle) ==
    [height |-> bdd.height,
     nodes |-> perf_copy_shuffled_from(
                  bdd.nodes, shuffle,
                  [i \in 1..Len(bdd.nodes) |->
                      IF i = 1 THEN perf_ZERO
                      ELSE IF i = 2 THEN perf_ONE
                      ELSE perf_uninitialized],
                  2)]

\* id_map of the two sorts before the search.
perf_id_map(bdd) ==
    [i \in 1..Len(bdd.nodes) |->
        IF i = 1 THEN NodeId_ZERO ELSE IF i = 2 THEN NodeId_ONE
        ELSE perf_NodeId_UNDEFINED]

\* The search of sort_preorder: ids are handed out downwards, in the order in
\* which the nodes are first popped.
RECURSIVE perf_preorder_search(_, _, _, _)
perf_preorder_search(nodes, search_stack, id_map, next_free_id) ==
    IF Len(search_stack) = 0
    THEN [id_map |-> id_map, next_free_id |-> next_free_id]
    ELSE LET task == search_stack[Len(search_stack)]
             rest == SubSeq(search_stack, 1, Len(search_stack) - 1)
         IN IF id_map[task + 1] = perf_NodeId_UNDEFINED
            THEN perf_preorder_search(
                    nodes,
                    rest \o <<perf_get_high_link(nodes[task + 1]),
                              perf_get_low_link(nodes[task + 1])>>,
                    [id_map EXCEPT ![task + 1] = next_free_id],
                    next_free_id - 1)
            ELSE perf_preorder_search(nodes, rest, id_map, next_free_id)

\* bdd::Bdd::sort_preorder: the copy it returns, unless its assertion fails.
perf_sort_preorder(bdd) ==
    IF Len(bdd.nodes) <= 2
    THEN [bdd |-> bdd, panicked |-> FALSE]
    ELSE LET search == perf_preorder_search(bdd.nodes, <<Len(bdd.nodes) - 1>>,
                                            perf_id_map(bdd), Len(bdd.nodes) - 1)
         IN IF search.next_free_id # 1
            THEN [bdd |-> bdd, panicked |-> TRUE]
            ELSE [bdd |-> perf_copy_shuffled(bdd, search.id_map), panicked |-> FALSE]

\* The search of sort_postorder; an entry of the stack is <<task, expended>>.
RECURSIVE perf_postorder_search(_, _, _, _)
perf_postorder_search(nodes, search_stack, id_map, next_free_id) ==
    IF Len(search_stack) = 0
    THEN [id_map |-> id_map, next_free_id |-> next_free_id]
    ELSE LET task == search_stack[Len(search_stack)][1]
             expended == search_stack[Len(search_stack)][2]
             rest == SubSeq(search_stack, 1, Len(search_stack) - 1)
         IN IF expended
            THEN perf_postorder_search(nodes, rest,
                                       [id_map EXCEPT ![task + 1] = next_free_id],
                                       next_free_id + 1)
            ELSE IF id_map[task + 1] = perf_NodeId_UNDEFINED
            THEN perf_postorder_search(
                    nodes,
                    rest \o <<<<task, TRUE>>,
                              <<perf_get_high_link(nodes[task + 1]), FALSE>>,
                              <<perf_get_low_link(nodes[task + 1]), FALSE>>>>,
                    id_map, next_free_id)
            ELSE perf_postorder_search(nodes, rest, id_map, next_free_id)

\* bdd::Bdd::sort_postorder: the copy it returns, unless its assertion fails.
perf_sort_postorder(bdd) ==
    IF Len(bdd.nodes) <= 2
    THEN [bdd |-> bdd, panicked |-> FALSE]
    ELSE LET search == perf_postorder_search(bdd.nodes, <<<<Len(bdd.nodes) - 1, FALSE>>>>,
                                             perf_id_map(bdd), 2)
         IN IF search.next_free_id # Len(bdd.nodes)
            THEN [bdd |-> bdd, panicked |-> TRUE]
            ELSE [bdd |-> perf_copy_shuffled(bdd, search.id_map), panicked |-> FALSE]

(***************************************************************************)
(* PointerPair, Stack, TaskCache and NodeCache.  Their modules              *)
(* (pointer_pair, coupled_dfs_stack, partial_task_cache and                 *)
(* u48::partial_node_cache) are declared in the source but their bodies are *)
(* not part of it; they are modelled from sections 4.3 - 4.5 of the         *)
(* specification and from the way _u32_apply calls them.                    *)
(***************************************************************************)
\* A stack entry is either a task (a pair of ids) or a result (one id).
PointerPair_pack(left, right) == [result |-> FALSE, left |-> left, right |-> right]
PointerPair_from_result(id) == [result |-> TRUE, left |-> id, right |-> 0]
PointerPair_unpack(pair) == <<pair.left, pair.right>>
PointerPair_is_result(pair) == pair.result

\* Stack::new followed by nothing: an empty stack.
Stack_new == <<>>
push_task_unchecked(stack, tasks) == Append(stack, tasks)
has_result(stack) == PointerPair_is_result(stack[Len(stack)])
peek_as_task_unchecked(stack) == stack[Len(stack)]
\* "If exactly one entry remains on the stack and it is a result".
has_last_entry(stack) == Len(stack) = 1 /\ PointerPair_is_result(stack[1])
\* save_result_unchecked replaces the task on the top by its result. If the
\* entry below is the sibling (high) task, the two are swapped, so that the
\* task is on top and the result below it; the call then answers false. If
\* the entry below is a result, two results are now on top of their parent
\* task and the call answers true.
save_result_swaps(stack) ==
    Len(stack) >= 2 /\ ~PointerPair_is_result(stack[Len(stack) - 1])
save_result_unchecked(stack, id) ==
    IF save_result_swaps(stack)
    THEN [stack EXCEPT ![Len(stack) - 1] = PointerPair_from_result(id),
                       ![Len(stack)] = stack[Len(stack) - 1]]
    ELSE [stack EXCEPT ![Len(stack)] = PointerPair_from_result(id)]
save_result_finishes(stack) ==
    Len(stack) >= 2 /\ PointerPair_is_result(stack[Len(stack) - 1])
\* pop_results_unchecked removes the two results on top: the lower one is the
\* result of the low task, the upper one the result of the high task.
pop_results_low(stack) == stack[Len(stack) - 1].left
pop_results_high(stack) == stack[Len(stack)].left
pop_results_unchecked(stack) == SubSeq(stack, 1, Len(stack) - 2)

\* The task cache maps the keys written so far to the result written last.
TaskCache_new == <<>>
TaskCache_has(cache, tasks) == PointerPair_unpack(tasks) \in DOMAIN cache
\* read answers the stored result or "undefined"; the cache need not be exact,
\* so a stored entry may also be reported as undefined (forgotten).
TaskCache_read(cache, tasks, forgotten) ==
    IF TaskCache_has(cache, tasks) /\ ~forgotten
    THEN cache[PointerPair_unpack(tasks)]
    ELSE NodeId_UNDEFINED
TaskCache_write(cache, tasks, id) ==
    [k \in DOMAIN cache \cup {PointerPair_unpack(tasks)} |->
        IF k = PointerPair_unpack(tasks) THEN id ELSE cache[k]]

\* The node cache is the growing node array of the result; it starts with the
\* two terminal nodes.
NodeCache_new == <<BddNode_ZERO, BddNode_ONE>>
NodeCache_find(cache, node) == {i \in 3..Len(cache) : cache[i] = node}
NodeCache_first(cache, node) ==
    CHOOSE i \in NodeCache_find(cache, node) :
        \A j \in NodeCache_find(cache, node) : i <= j
\* ensure(node): the id of the first occurrence, or the id of the node appended.
NodeCache_ensure_id(cache, node) ==
    IF NodeCache_find(cache, node) # {}
    THEN NodeCache_first(cache, node) - 1
    ELSE Len(cache)
NodeCache_ensure(cache, node) ==
    IF NodeCache_find(cache, node) # {} THEN cache ELSE Append(cache, node)
NodeCache_export(cache) == [variable_count |-> 0, nodes |-> cache]

(***************************************************************************)
(* The terminal predicates of the eight operations (impl Bdd).             *)
(***************************************************************************)
Operations == {"and", "or", "imp", "inv_imp", "iff", "xor", "and_not", "not_and"}

\* A slip: the ZERO predicate of or copied from and.
u32_zero_or_copied_from_and(operation, l, r) ==
    CASE operation \in {"and", "or"} -> is_zero(l) \/ is_zero(r)
      [] operation = "imp" -> is_one(l) /\ is_zero(r)
      [] operation = "inv_imp" -> is_zero(l) \/ is_one(r)
      [] operation = "iff" -> (is_one(l) /\ is_zero(r)) \/ (is_zero(l) /\ is_one(r))
      [] operation = "xor" -> (is_one(l) /\ is_one(r)) \/ (is_zero(l) /\ is_zero(r))
      [] operation = "and_not" -> is_zero(l) \/ is_one(r)
      [] operation = "not_and" -> is_one(l) /\ is_zero(r)

\* A slip: the ZERO predicate of iff copied from xor.
u32_zero_iff_copied_from_xor(operation, l, r) ==
    CASE operation = "and" -> is_zero(l) \/ is_zero(r)
      [] operation = "or" -> is_zero(l) /\ is_zero(r)
      [] operation = "imp" -> is_one(l) /\ is_zero(r)
      [] operation = "inv_imp" -> is_zero(l) \/ is_one(r)
      [] operation \in {"iff", "xor"} ->
            (is_one(l) /\ is_one(r)) \/ (is_zero(l) /\ is_zero(r))
      [] operation = "and_not" -> is_zero(l) \/ is_one(r)
      [] operation = "not_and" -> is_one(l) /\ is_zero(r)

\* A slip: the ZERO predicate of xor misses the task of two ZERO terminals.
u32_zero_xor_misses_both_zero(operation, l, r) ==
    CASE operation = "and" -> is_zero(l) \/ is_zero(r)
      [] operation = "or" -> is_zero(l) /\ is_zero(r)
      [] operation = "imp" -> is_one(l) /\ is_zero(r)
      [] operation = "inv_imp" -> is_zero(l) \/ is_one(r)
      [] operation = "iff" -> (is_one(l) /\ is_zero(r)) \/ (is_zero(l) /\ is_one(r))
      [] operation = "xor" -> is_one(l) /\ is_one(r)
      [] operation = "and_not" -> is_zero(l) \/ is_one(r)
      [] operation = "not_and" -> is_one(l) /\ is_zero(r)

u32_zero(operation, l, r) ==
    CASE operation = "and" -> is_zero(l) \/ is_zero(r)
      [] operation = "or" -> is_zero(l) /\ is_zero(r)
      [] operation = "imp" -> is_one(l) /\ is_zero(r)
      [] operation = "inv_imp" -> is_zero(l) \/ is_one(r)
      [] operation = "iff" -> (is_one(l) /\ is_zero(r)) \/ (is_zero(l) /\ is_one(r))
      [] operation = "xor" -> (is_one(l) /\ is_one(r)) \/ (is_zero(l) /\ is_zero(r))
      [] operation = "and_not" -> is_zero(l) \/ is_one(r)
      [] operation = "not_and" -> is_one(l) /\ is_zero(r)

\* A slip: the ONE predicate of and copied from or.
u32_one_and_copied_from_or(operation, l, r) ==
    CASE operation \in {"and", "or"} -> is_one(l) \/ is_one(r)
      [] operation = "imp" -> is_zero(l) \/ is_one(r)
      [] operation = "inv_imp" -> is_one(l) /\ is_zero(r)
      [] operation = "iff" -> (is_zero(l) /\ is_zero(r)) \/ (is_one(l) /\ is_one(r))
      [] operation = "xor" -> (is_zero(l) /\ is_one(r)) \/ (is_one(l) /\ is_zero(r))
      [] operation = "and_not" -> is_one(l) /\ is_zero(r)
      [] operation = "not_and" -> is_zero(l) \/ is_one(r)

u32_one(operation, l, r) ==
    CASE operation = "and" -> is_one(l) /\ is_one(r)
      [] operation = "or" -> is_one(l) \/ is_one(r)
      [] operation = "imp" -> is_zero(l) \/ is_one(r)
      [] operation = "inv_imp" -> is_one(l) /\ is_zero(r)
      [] operation = "iff" -> (is_zero(l) /\ is_zero(r)) \/ (is_one(l) /\ is_one(r))
      [] operation = "xor" -> (is_zero(l) /\ is_one(r)) \/ (is_one(l) /\ is_zero(r))
      [] operation = "and_not" -> is_one(l) /\ is_zero(r)
      [] operation = "not_and" -> is_zero(l) \/ is_one(r)

\* The lookup table handed to the generic _u32_apply, derived from the pair of
\* predicates of an operation (section 4.5 of the specification).
lookup(operation, l, r) ==
    IF u32_zero(operation, l, r) THEN NodeId_ZERO
    ELSE IF u32_one(operation, l, r) THEN NodeId_ONE
    ELSE NodeId_UNDEFINED

(***************************************************************************)
(* The input diagrams: every reduced ordered Bdd over the variables        *)
(* 0 .. NumVars - 1 with a bounded number of decision nodes, all of them    *)
(* reachable from the root, and a few larger diagrams over three variables. *)
(***************************************************************************)
\* The decision nodes that may be appended to the node array `nodes` so that
\* it stays a reduced ordered Bdd: children are earlier nodes, differ from
\* each other, have a greater variable, and the triple is new.
NodeOptions(nodes) ==
    {node \in (0..(NumVars - 1)) \X (0..(Len(nodes) - 1)) \X (0..(Len(nodes) - 1)) :
        /\ node[2] # node[3]
        /\ \A child \in {node[2], node[3]} : nodes[child + 1][1] > node[1]
        /\ \A i \in 1..Len(nodes) : nodes[i] # node}

RECURSIVE NodeArrays(_)
NodeArrays(decision_nodes) ==
    IF decision_nodes = 0
    THEN {<<BddNode_ZERO, BddNode_ONE>>}
    ELSE UNION {{Append(nodes, node) : node \in NodeOptions(nodes)} :
                    nodes \in NodeArrays(decision_nodes - 1)}

RECURSIVE ReachableFrom(_, _)
ReachableFrom(nodes, id) ==
    IF id <= 1 THEN {id}
    ELSE {id} \cup ReachableFrom(nodes, nodes[id + 1][2])
              \cup ReachableFrom(nodes, nodes[id + 1][3])

AllReachable(nodes) ==
    \A id \in 2..(Len(nodes) - 1) : id \in ReachableFrom(nodes, Len(nodes) - 1)

\* One plus the largest variable of a decision node, 0 for a constant.
RECURSIVE UsedVariables(_, _)
UsedVariables(nodes, i) ==
    IF i < 3 THEN 0 ELSE Max(nodes[i][1] + 1, UsedVariables(nodes, i - 1))

BddOf(nodes) == [variable_count |-> UsedVariables(nodes, Len(nodes)), nodes |-> nodes]

BddsUpTo(decision_nodes) ==
    {new_false} \cup
    {BddOf(nodes) : nodes \in {a \in UNION {NodeArrays(k) : k \in 0..decision_nodes} :
                                    AllReachable(a)}}

\* x2
SampleLiteral == new_variable(2)
\* if x0 then x2 else (x1 and x2): the node of x2 is shared
SampleShared ==
    BddOf(<<BddNode_ZERO, BddNode_ONE, BddNode_pack(2, 0, 1), BddNode_pack(1, 0, 2),
            BddNode_pack(0, 3, 2)>>)
\* x0 xor x1
SampleXor ==
    BddOf(<<BddNode_ZERO, BddNode_ONE, BddNode_pack(1, 0, 1), BddNode_pack(1, 1, 0),
            BddNode_pack(0, 2, 3)>>)
SampleBdds == {SampleLiteral, SampleShared, SampleXor}

LeftInputs == BddsUpTo(MaxLeftNodes) \cup SampleBdds
RightInputs == BddsUpTo(MaxRightNodes) \cup SampleBdds

(***************************************************************************)
(* The state of one call of apply.                                         *)
(***************************************************************************)
VARIABLES
    left_bdd,       \* the left operand
    right_bdd,      \* the right operand
    operation,      \* the operation whose terminal predicates are used
    pc,             \* "start", "loop", "output" or "done"
    variables,      \* max of the operands' variable counts
    is_not_false,   \* a terminal lookup has produced ONE
    node_cache,     \* the node array built so far
    task_cache,     \* the results of the finished tasks
    stack,          \* tasks and results
    result          \* the Bdd returned

\* A second call of the operation, with the operands exchanged.
VARIABLES
    swapped_result  \* the Bdd the call returned before the operands were exchanged

\* Calls of the sorting functions on one diagram: of Bdd::sort_preorder
\* (src/v2/mod.rs) and of sort_preorder and sort_postorder of
\* src/perf_testing.rs.
VARIABLES
    sort_input,     \* the Bdd before the first call of Bdd::sort_preorder
    sort_before,    \* the Bdd before the last call
    sort_bdd,       \* the Bdd as the calls so far have left it
    sort_calls,     \* the number of calls made
    sort_crashed,   \* the last call wrote outside its stack and the process died
    perf_input,     \* the perf_testing Bdd before the first sort
    perf_before,    \* the perf_testing Bdd before the last sort
    perf_bdd,       \* the perf_testing Bdd the last sort returned
    perf_calls,     \* the names of the sorts called, in order
    perf_panicked   \* an assertion of the last sort failed

sort_vars == <<sort_input, sort_before, sort_bdd, sort_calls, sort_crashed,
               perf_input, perf_before, perf_bdd, perf_calls, perf_panicked>>

\* Nodes packed into their two words and unpacked again, and texts given to
\* the parsers, by BddNode and Bdd::try_from (src/v2/mod.rs) and by
\* PackedBddNode and Bdd::try_from of src/perf_testing.rs.
VARIABLES
    pack_input,     \* the variable, low and high given to pack
    packed,         \* the BddNode that BddNode::pack returned, <<>> before it
    unpacked,       \* what unpack, low_link and high_link returned for it
    perf_packed,    \* the PackedBddNode that PackedBddNode::pack returned
    perf_unpacked,  \* what unpack and get_variable returned for it
    text,           \* the text given to the parsers
    parsed,         \* how Bdd::try_from of src/v2 ended, <<>> before it
    perf_parsed     \* how Bdd::try_from of src/perf_testing.rs ended

format_vars == <<pack_input, packed, unpacked, perf_packed, perf_unpacked,
                 text, parsed, perf_parsed>>

\* The node counts of two operands as words of 64 bits, and how the two size
\* checks at the entry of apply ended for them in a build with debug
\* assertions.
VARIABLES
    size_input,     \* <<left_bdd.node_count(), right_bdd.node_count()>>
    size_checked    \* <<left passed, right passed>>, <<>> before the checks

limit_vars == <<size_input, size_checked>>

\* How Bdd::sort_preorder_safe and Bdd::sort_preorder ended on the same Bdd.
VARIABLES
    safe_sorted,        \* the outcome of sort_preorder_safe, <<>> before it
    unchecked_sorted    \* the outcome of sort_preorder, <<>> before it

compare_vars == <<safe_sorted, unchecked_sorted>>

other_vars == <<swapped_result, sort_vars, format_vars, limit_vars, compare_vars>>

vars == <<left_bdd, right_bdd, operation, pc, variables, is_not_false,
          node_cache, task_cache, stack, result, swapped_result, sort_vars,
          format_vars, limit_vars, compare_vars>>

\* The value of `result` before apply returns.
NoResult == [variable_count |-> 0, nodes |-> <<>>]

\* debug_assert!(self.node_count() >= other.node_count()) of the operations.
OperationPrecondition(left, right) == node_count(left) >= node_count(right)

InitCall ==
    /\ left_bdd \in LeftInputs
    /\ right_bdd \in RightInputs
    /\ operation \in Operations
    /\ pc = "start"
    /\ variables = 0
    /\ is_not_false = FALSE
    /\ node_cache = <<>>
    /\ task_cache = <<>>
    /\ stack = <<>>
    /\ result = NoResult

\* No sorting function is called.
NoSort ==
    /\ sort_input = new_false
    /\ sort_before = new_false
    /\ sort_bdd = new_false
    /\ sort_calls = 0
    /\ sort_crashed = FALSE
    /\ perf_input = perf_try_from(new_false.nodes)
    /\ perf_before = perf_input
    /\ perf_bdd = perf_input
    /\ perf_calls = <<>>
    /\ perf_panicked = FALSE

\* Nothing is packed.
NoPack ==
    /\ pack_input = <<>>
    /\ packed = <<>>
    /\ unpacked = <<>>
    /\ perf_packed = <<>>
    /\ perf_unpacked = <<>>

\* Nothing is parsed.
NoParse ==
    /\ text = <<>>
    /\ parsed = <<>>
    /\ perf_parsed = <<>>

\* No sizes are checked apart from a call.
NoSizeCheck ==
    /\ size_input = <<>>
    /\ size_checked = <<>>

\* The two sorting functions are not compared.
NoComparison ==
    /\ safe_sorted = <<>>
    /\ unchecked_sorted = <<>>

\* A call of one of the eight operations, which expand apply_u32!.
Init ==
    /\ InitCall
    /\ OperationPrecondition(left_bdd, right_bdd)
    /\ swapped_result = NoResult
    /\ NoSort
    /\ NoPack
    /\ NoParse
    /\ NoSizeCheck
    /\ NoComparison

\* A call of the generic _u32_apply with the lookup table of an operation.
InitGeneric ==
    /\ InitCall
    /\ swapped_result = NoResult
    /\ NoSort
    /\ NoPack
    /\ NoParse
    /\ NoSizeCheck
    /\ NoComparison

(***************************************************************************)
(* _u32_apply and apply_u32!: setup, main loop, output.                    *)
(***************************************************************************)
\* The preamble: variables, the caches, and the stack with the root task.
Setup ==
    /\ pc = "start"
    /\ variables' = Max(variable_count(left_bdd), variable_count(right_bdd))
    /\ is_not_false' = FALSE
    /\ node_cache' = NodeCache_new
    /\ task_cache' = TaskCache_new
    /\ stack' = push_task_unchecked(Stack_new,
                    PointerPair_pack(root_node(left_bdd), root_node(right_bdd)))
    /\ pc' = "loop"
    /\ UNCHANGED <<left_bdd, right_bdd, operation, result,
                   other_vars>>

decision_variable(left_var, right_var) == Min(left_var, right_var)

\* A slip: the node itself is taken as both cofactors, whatever it decides on.
cofactors_never_descend(bdd, id, variable) == <<id, id>>

\* The cofactors of a node with respect to the decision variable: its two
\* children if it decides on that variable, the node itself twice otherwise.
cofactors(bdd, id, variable) ==
    LET node == BddNode_unpack(get_node_unchecked(bdd, id)) IN
    IF variable = node.variable THEN <<node.low, node.high>> ELSE <<id, id>>

\* A slip: the low cofactor of the left operand is paired with the high
\* cofactor of the right operand, and the high with the low.
push_subtasks_crossed(s, left, right) ==
    LET left_node == BddNode_unpack(get_node_unchecked(left_bdd, left))
        right_node == BddNode_unpack(get_node_unchecked(right_bdd, right))
        variable == decision_variable(left_node.variable, right_node.variable)
        left_pair == cofactors(left_bdd, left, variable)
        right_pair == cofactors(right_bdd, right, variable)
        low_tasks == PointerPair_pack(left_pair[1], right_pair[2])
        high_tasks == PointerPair_pack(left_pair[2], right_pair[1])
    IN push_task_unchecked(push_task_unchecked(s, high_tasks), low_tasks)

\* A slip: the ids of the right operand are packed as the left half of the
\* subtasks, those of the left operand as the right half.
push_subtasks_sides_exchanged(s, left, right) ==
    LET left_node == BddNode_unpack(get_node_unchecked(left_bdd, left))
        right_node == BddNode_unpack(get_node_unchecked(right_bdd, right))
        variable == decision_variable(left_node.variable, right_node.variable)
        left_pair == cofactors(left_bdd, left, variable)
        right_pair == cofactors(right_bdd, right, variable)
        low_tasks == PointerPair_pack(right_pair[1], left_pair[1])
        high_tasks == PointerPair_pack(right_pair[2], left_pair[2])
    IN push_task_unchecked(push_task_unchecked(s, high_tasks), low_tasks)

\* A slip: only the high task is pushed.
push_subtasks_high_only(s, left, right) ==
    LET left_node == BddNode_unpack(get_node_unchecked(left_bdd, left))
        right_node == BddNode_unpack(get_node_unchecked(right_bdd, right))
        variable == decision_variable(left_node.variable, right_node.variable)
        left_pair == cofactors(left_bdd, left, variable)
        right_pair == cofactors(right_bdd, right, variable)
        high_tasks == PointerPair_pack(left_pair[2], right_pair[2])
    IN push_task_unchecked(s, high_tasks)

\* A slip: the low task is pushed first, the high task on top of it.
push_subtasks_low_first(s, left, right) ==
    LET left_node == BddNode_unpack(get_node_unchecked(left_bdd, left))
        right_node == BddNode_unpack(get_node_unchecked(right_bdd, right))
        variable == decision_variable(left_node.variable, right_node.variable)
        left_pair == cofactors(left_bdd, left, variable)
        right_pair == cofactors(right_bdd, right, variable)
        low_tasks == PointerPair_pack(left_pair[1], right_pair[1])
        high_tasks == PointerPair_pack(left_pair[2], right_pair[2])
    IN push_task_unchecked(push_task_unchecked(s, low_tasks), high_tasks)

\* Expansion of a task that neither the terminal rules nor the task cache
\* resolve: push the high task, then the low task.
push_subtasks(s, left, right) ==
    LET left_node == BddNode_unpack(get_node_unchecked(left_bdd, left))
        right_node == BddNode_unpack(get_node_unchecked(right_bdd, right))
        variable == decision_variable(left_node.variable, right_node.variable)
        left_pair == cofactors(left_bdd, left, variable)
        right_pair == cofactors(right_bdd, right, variable)
        low_tasks == PointerPair_pack(left_pair[1], right_pair[1])
        high_tasks == PointerPair_pack(left_pair[2], right_pair[2])
    IN push_task_unchecked(push_task_unchecked(s, high_tasks), low_tasks)

\* A slip: the task cache is not read, every task is expanded.
expand_uncached_without_read(s, cache, inf, forgotten) ==
    LET tasks == peek_as_task_unchecked(s)
    IN [stack |-> push_subtasks(s, tasks.left, tasks.right),
        is_not_false |-> inf,
        finish_task |-> FALSE]

\* Task cache read and, on a miss, expansion (shared by both engines).
expand_uncached(s, cache, inf, forgotten) ==
    LET tasks == peek_as_task_unchecked(s)
        cached_node == TaskCache_read(cache, tasks, forgotten)
    IN IF ~is_undefined(cached_node)
       THEN [stack |-> save_result_unchecked(s, cached_node),
             is_not_false |-> inf,
             finish_task |-> save_result_finishes(s)]
       ELSE [stack |-> push_subtasks(s, tasks.left, tasks.right),
             is_not_false |-> inf,
             finish_task |-> FALSE]

\* "Expand current top task" of apply_u32!.
expand_macro(s, cache, inf, forgotten) ==
    LET tasks == peek_as_task_unchecked(s)
        left == PointerPair_unpack(tasks)[1]
        right == PointerPair_unpack(tasks)[2]
    IN IF u32_zero(operation, left, right)
       THEN [stack |-> save_result_unchecked(s, NodeId_ZERO),
             is_not_false |-> inf,
             finish_task |-> save_result_finishes(s)]
       ELSE IF u32_one(operation, left, right)
       THEN [stack |-> save_result_unchecked(s, NodeId_ONE),
             is_not_false |-> TRUE,
             finish_task |-> save_result_finishes(s)]
       ELSE expand_uncached(s, cache, inf, forgotten)

\* A slip: is_not_false is set by every lookup that is defined.
expand_generic_any_lookup(s, cache, inf, forgotten) ==
    LET tasks == peek_as_task_unchecked(s)
        left == PointerPair_unpack(tasks)[1]
        right == PointerPair_unpack(tasks)[2]
        lookup_result == lookup(operation, left, right)
        inf_after == inf \/ ~is_undefined(lookup_result)
    IN IF ~is_undefined(lookup_result)
       THEN [stack |-> save_result_unchecked(s, lookup_result),
             is_not_false |-> inf_after,
             finish_task |-> save_result_finishes(s)]
       ELSE expand_uncached(s, cache, inf_after, forgotten)

\* "Expand current top task" of _u32_apply.
expand_generic(s, cache, inf, forgotten) ==
    LET tasks == peek_as_task_unchecked(s)
        left == PointerPair_unpack(tasks)[1]
        right == PointerPair_unpack(tasks)[2]
        lookup_result == lookup(operation, left, right)
        inf_after == inf \/ is_one(lookup_result)
    IN IF ~is_undefined(lookup_result)
       THEN [stack |-> save_result_unchecked(s, lookup_result),
             is_not_false |-> inf_after,
             finish_task |-> save_result_finishes(s)]
       ELSE expand_uncached(s, cache, inf_after, forgotten)

\* A slip: a node is built also when the two results are equal.
finish_task_without_shortcut(s, cache, nodes) ==
    LET low == pop_results_low(s)
        high == pop_results_high(s)
        popped == pop_results_unchecked(s)
        task == peek_as_task_unchecked(popped)
        left == PointerPair_unpack(task)[1]
        right == PointerPair_unpack(task)[2]
        variable == decision_variable(get_variable(left_bdd, left),
                                      get_variable(right_bdd, right))
        node == BddNode_pack(variable, low, high)
        result_id == NodeCache_ensure_id(nodes, node)
    IN [stack |-> save_result_unchecked(popped, result_id),
        task_cache |-> TaskCache_write(cache, task, result_id),
        node_cache |-> NodeCache_ensure(nodes, node)]

\* A slip: the node is pushed to the node array without asking the node cache.
finish_task_pushes_node(s, cache, nodes) ==
    LET low == pop_results_low(s)
        high == pop_results_high(s)
        popped == pop_results_unchecked(s)
        task == peek_as_task_unchecked(popped)
    IN IF high = low
       THEN [stack |-> save_result_unchecked(popped, low),
             task_cache |-> TaskCache_write(cache, task, low),
             node_cache |-> nodes]
       ELSE LET left == PointerPair_unpack(task)[1]
                right == PointerPair_unpack(task)[2]
                variable == decision_variable(get_variable(left_bdd, left),
                                              get_variable(right_bdd, right))
                node == BddNode_pack(variable, low, high)
                result_id == Len(nodes)
            IN [stack |-> save_result_unchecked(popped, result_id),
                task_cache |-> TaskCache_write(cache, task, result_id),
                node_cache |-> Append(nodes, node)]

\* A slip: the node decides on the larger of the two variables of the task.
finish_task_max_variable(s, cache, nodes) ==
    LET low == pop_results_low(s)
        high == pop_results_high(s)
        popped == pop_results_unchecked(s)
        task == peek_as_task_unchecked(popped)
    IN IF high = low
       THEN [stack |-> save_result_unchecked(popped, low),
             task_cache |-> TaskCache_write(cache, task, low),
             node_cache |-> nodes]
       ELSE LET left == PointerPair_unpack(task)[1]
                right == PointerPair_unpack(task)[2]
                variable == Max(get_variable(left_bdd, left),
                                get_variable(right_bdd, right))
                node == BddNode_pack(variable, low, high)
                result_id == NodeCache_ensure_id(nodes, node)
            IN [stack |-> save_result_unchecked(popped, result_id),
                task_cache |-> TaskCache_write(cache, task, result_id),
                node_cache |-> NodeCache_ensure(nodes, node)]

\* A slip: the node is packed from the two ids of the task, not from the two
\* results.
finish_task_packs_task(s, cache, nodes) ==
    LET low == pop_results_low(s)
        high == pop_results_high(s)
        popped == pop_results_unchecked(s)
        task == peek_as_task_unchecked(popped)
    IN IF high = low
       THEN [stack |-> save_result_unchecked(popped, low),
             task_cache |-> TaskCache_write(cache, task, low),
             node_cache |-> nodes]
       ELSE LET left == PointerPair_unpack(task)[1]
                right == PointerPair_unpack(task)[2]
                variable == decision_variable(get_variable(left_bdd, left),
                                              get_variable(right_bdd, right))
                node == BddNode_pack(variable, left, right)
                result_id == NodeCache_ensure_id(nodes, node)
            IN [stack |-> save_result_unchecked(popped, result_id),
                task_cache |-> TaskCache_write(cache, task, result_id),
                node_cache |-> NodeCache_ensure(nodes, node)]

\* A slip: the node is given to the node cache before the two results are
\* compared, so that a node is appended also when the task returns low.
finish_task_ensures_before_shortcut(s, cache, nodes) ==
    LET low == pop_results_low(s)
        high == pop_results_high(s)
        popped == pop_results_unchecked(s)
        task == peek_as_task_unchecked(popped)
        left == PointerPair_unpack(task)[1]
        right == PointerPair_unpack(task)[2]
        variable == decision_variable(get_variable(left_bdd, left),
                                      get_variable(right_bdd, right))
        node == BddNode_pack(variable, low, high)
        result_id == IF high = low THEN low ELSE NodeCache_ensure_id(nodes, node)
    IN [stack |-> save_result_unchecked(popped, result_id),
        task_cache |-> TaskCache_write(cache, task, result_id),
        node_cache |-> NodeCache_ensure(nodes, node)]

\* "Finish current top task": pop the two results and reduce.
finish_task(s, cache, nodes) ==
    LET low == pop_results_low(s)
        high == pop_results_high(s)
        popped == pop_results_unchecked(s)
        task == peek_as_task_unchecked(popped)
    IN IF high = low
       THEN [stack |-> save_result_unchecked(popped, low),
             task_cache |-> TaskCache_write(cache, task, low),
             node_cache |-> nodes]
       ELSE LET left == PointerPair_unpack(task)[1]
                right == PointerPair_unpack(task)[2]
                variable == decision_variable(get_variable(left_bdd, left),
                                              get_variable(right_bdd, right))
                node == BddNode_pack(variable, low, high)
                result_id == NodeCache_ensure_id(nodes, node)
            IN [stack |-> save_result_unchecked(popped, result_id),
                task_cache |-> TaskCache_write(cache, task, result_id),
                node_cache |-> NodeCache_ensure(nodes, node)]

\* The reduction that ends an iteration whose top of stack is, or has become,
\* a pair of results.
reduce_if_finished(expanded, cache, nodes) ==
    IF expanded.finish_task
    THEN LET finished == finish_task(expanded.stack, cache, nodes) IN
         [stack |-> finished.stack, task_cache |-> finished.task_cache,
          node_cache |-> finished.node_cache, is_not_false |-> expanded.is_not_false]
    ELSE [stack |-> expanded.stack, task_cache |-> cache,
          node_cache |-> nodes, is_not_false |-> expanded.is_not_false]

\* let mut finish_task = stack.has_result(): nothing is expanded.
no_expansion(s, inf) == [stack |-> s, is_not_false |-> inf, finish_task |-> TRUE]

\* The body of the loop of apply_u32!.
macro_iteration(s, cache, nodes, inf, forgotten) ==
    reduce_if_finished(IF has_result(s) THEN no_expansion(s, inf)
                       ELSE expand_macro(s, cache, inf, forgotten),
                       cache, nodes)

\* The body of the loop of _u32_apply.
generic_iteration(s, cache, nodes, inf, forgotten) ==
    reduce_if_finished(IF has_result(s) THEN no_expansion(s, inf)
                       ELSE expand_generic(s, cache, inf, forgotten),
                       cache, nodes)

\* if stack.has_last_entry() { break; }
loop_exit(s) == has_last_entry(s)

Iterate(after) ==
    /\ stack' = after.stack
    /\ task_cache' = after.task_cache
    /\ node_cache' = after.node_cache
    /\ is_not_false' = after.is_not_false
    /\ pc' = IF loop_exit(after.stack) THEN "output" ELSE "loop"
    /\ UNCHANGED <<left_bdd, right_bdd, operation, variables, result,
                   other_vars>>

\* One iteration of the loop of apply_u32!.
LoopIteration ==
    /\ pc = "loop"
    /\ \E forgotten \in BOOLEAN :
        Iterate(macro_iteration(stack, task_cache, node_cache, is_not_false, forgotten))

\* One iteration of the loop of _u32_apply.
LoopIterationGeneric ==
    /\ pc = "loop"
    /\ \E forgotten \in BOOLEAN :
        Iterate(generic_iteration(stack, task_cache, node_cache, is_not_false, forgotten))

\* A slip: the node cache is exported whether or not is_not_false is set.
output_always_exports(nodes, inf, variable_bound) ==
    update_variable_count(NodeCache_export(nodes), variable_bound)

\* A slip: the exported Bdd keeps the variable count of the node cache.
output_without_variable_count(nodes, inf, variable_bound) ==
    IF inf THEN NodeCache_export(nodes) ELSE new_false

\* The value returned.
output(nodes, inf, variable_bound) ==
    IF inf
    THEN update_variable_count(NodeCache_export(nodes), variable_bound)
    ELSE new_false

Output ==
    /\ pc = "output"
    /\ result' = output(node_cache, is_not_false, variables)
    /\ pc' = "done"
    /\ UNCHANGED <<left_bdd, right_bdd, operation, variables, is_not_false,
                   node_cache, task_cache, stack,
                   other_vars>>

Next == Setup \/ LoopIteration \/ Output
NextGeneric == Setup \/ LoopIterationGeneric \/ Output

Spec == Init /\ [][Next]_vars
SpecGeneric == InitGeneric /\ [][NextGeneric]_vars

\* After an operation has returned, the same operation is called with the
\* operands exchanged, if that call satisfies the assertion of the operation.
CallSwapped ==
    /\ pc = "done"
    /\ swapped_result = NoResult
    /\ OperationPrecondition(right_bdd, left_bdd)
    /\ swapped_result' = result
    /\ left_bdd' = right_bdd
    /\ right_bdd' = left_bdd
    /\ pc' = "start"
    /\ variables' = 0
    /\ is_not_false' = FALSE
    /\ node_cache' = <<>>
    /\ task_cache' = <<>>
    /\ stack' = <<>>
    /\ result' = NoResult
    /\ UNCHANGED <<operation, sort_vars, format_vars, limit_vars, compare_vars>>

NextSwapped == Setup \/ LoopIteration \/ Output \/ CallSwapped

\* op(L, R) followed by op(R, L).
SpecSwapped == Init /\ [][NextSwapped]_vars

\* The scheduling of the loop: an iteration that can run does run.
FairSpec == Init /\ [][Next]_vars /\ WF_vars(Next)
FairSpecGeneric == InitGeneric /\ [][NextGeneric]_vars /\ WF_vars(NextGeneric)

(***************************************************************************)
(* Calls of the sorting functions.                                         *)
(***************************************************************************)
\* if x0 then (x1 or x2) else (x1 and x2): the node of x2 is the high child
\* of the low child of the root and the low child of its high child.
SampleDiamond ==
    BddOf(<<BddNode_ZERO, BddNode_ONE, BddNode_pack(2, 0, 1), BddNode_pack(1, 0, 2),
            BddNode_pack(1, 2, 1), BddNode_pack(0, 3, 4)>>)

\* x0 xor x1 in the post-order of the benchmark files: the nodes below the
\* high child come before the nodes below the low child.
SampleHighFirst ==
    BddOf(<<BddNode_ZERO, BddNode_ONE, BddNode_pack(1, 1, 0), BddNode_pack(1, 0, 1),
            BddNode_pack(0, 3, 2)>>)

\* The diagrams the sorting functions are called on.
SortInputs ==
    BddsUpTo(MaxLeftNodes) \cup SampleBdds \cup {SampleDiamond, SampleHighFirst}

\* No call of apply is made.
NoCall ==
    /\ left_bdd = new_false
    /\ right_bdd = new_false
    /\ operation = "and"
    /\ pc = "idle"
    /\ variables = 0
    /\ is_not_false = FALSE
    /\ node_cache = <<>>
    /\ task_cache = <<>>
    /\ stack = <<>>
    /\ result = NoResult
    /\ swapped_result = NoResult

\* One diagram, as a Bdd of src/v2 and, parsed from the same records, as a
\* Bdd of src/perf_testing.rs.
InitSort ==
    /\ NoCall
    /\ sort_input \in SortInputs
    /\ sort_before = sort_input
    /\ sort_bdd = sort_input
    /\ sort_calls = 0
    /\ sort_crashed = FALSE
    /\ perf_input = perf_try_from(sort_input.nodes)
    /\ perf_before = perf_input
    /\ perf_bdd = perf_input
    /\ perf_calls = <<>>
    /\ perf_panicked = FALSE
    /\ NoPack
    /\ NoParse
    /\ NoSizeCheck
    /\ NoComparison

\* A call of Bdd::sort_preorder. A write outside the stack vector is undefined
\* behaviour: the process dies, or the write goes through and the call
\* carries on.
SortPreorder ==
    /\ pc = "idle"
    /\ ~sort_crashed
    /\ sort_calls < MaxSortCalls
    /\ LET call == sort_preorder(sort_bdd)
       IN \E crashed \in (IF call.out_of_bounds THEN BOOLEAN ELSE {FALSE}) :
            /\ sort_crashed' = crashed
            /\ sort_bdd' = IF crashed THEN sort_bdd ELSE call.bdd
    /\ sort_before' = sort_bdd
    /\ sort_calls' = sort_calls + 1
    /\ UNCHANGED <<left_bdd, right_bdd, operation, pc, variables, is_not_false,
                   node_cache, task_cache, stack, result, swapped_result,
                   sort_input, perf_input, perf_before, perf_bdd, perf_calls,
                   perf_panicked, format_vars,
                   limit_vars, compare_vars>>

\* A call `sort` of a sorting function of perf_testing, named `name`.
PerfSort(name, sort) ==
    /\ pc = "idle"
    /\ ~perf_panicked
    /\ Len(perf_calls) < MaxSortCalls
    /\ perf_panicked' = sort.panicked
    /\ perf_bdd' = sort.bdd
    /\ perf_before' = perf_bdd
    /\ perf_calls' = Append(perf_calls, name)
    /\ UNCHANGED <<left_bdd, right_bdd, operation, pc, variables, is_not_false,
                   node_cache, task_cache, stack, result, swapped_result,
                   sort_input, sort_before, sort_bdd, sort_calls, sort_crashed,
                   perf_input, format_vars, limit_vars,
                   compare_vars>>

PerfSortPreorder == PerfSort("sort_preorder", perf_sort_preorder(perf_bdd))
PerfSortPostorder == PerfSort("sort_postorder", perf_sort_postorder(perf_bdd))

NextSort == SortPreorder \/ PerfSortPreorder \/ PerfSortPostorder

SpecSort == InitSort /\ [][NextSort]_vars

(***************************************************************************)
(* What a Bdd means, and what a Bdd has to satisfy.                        *)
(***************************************************************************)
\* The truth assignments to the variables of the two operands.
Assignments == [0..(Max(variable_count(left_bdd), variable_count(right_bdd)) - 1) -> BOOLEAN]

RECURSIVE Eval(_, _, _)
Eval(nodes, id, a) ==
    IF id = NodeId_ZERO THEN FALSE
    ELSE IF id = NodeId_ONE THEN TRUE
    ELSE IF a[nodes[id + 1][1]] THEN Eval(nodes, nodes[id + 1][3], a)
    ELSE Eval(nodes, nodes[id + 1][2], a)

\* The value of the function of a Bdd under an assignment.
Value(bdd, a) == Eval(bdd.nodes, root_node(bdd), a)

\* The Boolean operations the eight names stand for.
Meaning(name, l, r) ==
    CASE name = "and" -> l /\ r
      [] name = "or" -> l \/ r
      [] name = "xor" -> l # r
      [] name = "iff" -> l = r
      [] name = "imp" -> ~l \/ r
      [] name = "inv_imp" -> l \/ ~r
      [] name = "and_not" -> l /\ ~r
      [] name = "not_and" -> ~l /\ r

\* The ids of the decision nodes of a node array.
DecisionIds(nodes) == 2..(Len(nodes) - 1)

NoRedundantNode(nodes) ==
    \A id \in DecisionIds(nodes) : nodes[id + 1][2] # nodes[id + 1][3]

NoDuplicateNode(nodes) ==
    \A i, j \in DecisionIds(nodes) : i # j => nodes[i + 1] # nodes[j + 1]

Ordered(nodes) ==
    \A id \in DecisionIds(nodes) :
        \A child \in {nodes[id + 1][2], nodes[id + 1][3]} :
            child <= 1 \/ (child < Len(nodes) /\ nodes[child + 1][1] > nodes[id + 1][1])

ChildrenBefore(nodes) ==
    \A id \in DecisionIds(nodes) :
        nodes[id + 1][2] < id /\ nodes[id + 1][3] < id

\* The invariants of the container (section 3 of the specification).
ContainerInvariants(bdd) ==
    /\ Len(bdd.nodes) >= 1
    /\ bdd.nodes[1] = BddNode_ZERO
    /\ Len(bdd.nodes) > 1 => bdd.nodes[2] = BddNode_ONE
    /\ ChildrenBefore(bdd.nodes)
    /\ Ordered(bdd.nodes)
    /\ NoDuplicateNode(bdd.nodes)
    /\ NoRedundantNode(bdd.nodes)

\* The decision variable of a task.
TaskVariable(key) ==
    decision_variable(get_variable(left_bdd, key[1]), get_variable(right_bdd, key[2]))

(***************************************************************************)
(* The claims.                                                             *)
(***************************************************************************)
\* C1: for and, or, xor, iff, imp and and_not, the Bdd that apply returns has,
\* under every assignment, the value of the operation applied to the values
\* of the two operands.
C1_ApplyComputesOperation ==
    (pc = "done" /\ operation \in {"and", "or", "xor", "iff", "imp", "and_not"}) =>
        \A a \in Assignments :
            Value(result, a) = Meaning(operation, Value(left_bdd, a), Value(right_bdd, a))

\* C1 witness: such an operation has returned a diagram with at least two
\* decision nodes for two operands that are not constants.
C1_Witness ==
    /\ pc = "done"
    /\ operation \in {"and", "or", "xor", "iff", "imp", "and_not"}
    /\ node_count(left_bdd) > 2
    /\ node_count(right_bdd) > 2
    /\ node_count(result) > 3

\* C2: _u32_inv_imp returns the inverse implication (left or not right) of its
\* operands; its predicates give ZERO exactly for (false, true) and ONE
\* exactly when left is true or right is false.
C2_InvImpIsInverseImplication ==
    (pc = "done" /\ operation = "inv_imp") =>
        /\ \A a \in Assignments :
              Value(result, a) = (Value(left_bdd, a) \/ ~Value(right_bdd, a))
        /\ \A l, r \in {NodeId_ZERO, NodeId_ONE} :
              /\ u32_zero("inv_imp", l, r) <=> (is_zero(l) /\ is_one(r))
              /\ u32_one("inv_imp", l, r) <=> (is_one(l) \/ is_zero(r))

\* C3: _u32_not_and returns (not left) and right, the mirror image of and_not.
C3_NotAndIsMirrorOfAndNot ==
    (pc = "done" /\ operation = "not_and") =>
        \A a \in Assignments :
            Value(result, a) = (~Value(left_bdd, a) /\ Value(right_bdd, a))

\* C4: no decision node built by apply, and none of the Bdd it returns, has
\* equal low and high children.
C4_NoNodeWithEqualChildren ==
    /\ NoRedundantNode(node_cache)
    /\ pc = "done" => NoRedundantNode(result.nodes)

\* C4 witness: a task whose two results were equal has passed the common
\* result (a decision node of a later variable) up as its own.
C4_Witness ==
    /\ pc = "done"
    /\ node_count(result) > 2
    /\ \E key \in DOMAIN task_cache :
          /\ task_cache[key] >= 2
          /\ node_cache[task_cache[key] + 1][1] > TaskVariable(key)

C6_ResultIsOrdered ==
    /\ Ordered(node_cache)
    /\ pc = "done" => Ordered(result.nodes)

\* C6 witness: a returned diagram in which a decision node has a decision
\* node as a child.
C6_Witness ==
    /\ pc = "done"
    /\ \E id \in DecisionIds(result.nodes) :
          result.nodes[id + 1][2] >= 2 \/ result.nodes[id + 1][3] >= 2

\* C7: in the Bdd apply returns, both children of a decision node have
\* smaller indices than the node, and the result of the root task is the last
\* element of the node array.
C7_ChildrenBeforeRootLast ==
    /\ ChildrenBefore(node_cache)
    /\ pc = "done" =>
          /\ ChildrenBefore(result.nodes)
          /\ stack[1].left = node_count(result) - 1

\* C7 witness: a returned diagram with at least three decision nodes.
C7_Witness ==
    /\ pc = "done"
    /\ node_count(result) >= 5
    /\ stack[1].left = root_node(result)

\* The number of iterations that resolve a task of a given height at most:
\* one for a pair the terminal rules resolve, and for a pair that is expanded
\* one for the expansion, those of its two subtasks, and one for the reduction.
RECURSIVE IterationBound(_)
IterationBound(height) ==
    IF height = 0 THEN 1 ELSE 2 * IterationBound(height - 1) + 2

\* The number of variables a task may still decide on.
TaskHeight(tasks) ==
    LET variable == TaskVariable(PointerPair_unpack(tasks)) IN
    IF variable = VariableId_UNDEFINED THEN 0 ELSE variables - variable

\* A bound on the iterations still needed by the entries of the stack from
\* the task at position i up: a task on top is still to be resolved; a task
\* below the top has been expanded, awaits one reduction, and the two entries
\* above it hold its subtasks or their results.
RECURSIVE Remaining(_, _)
Remaining(s, i) ==
    IF i = Len(s) THEN IterationBound(TaskHeight(s[i]))
    ELSE 1 + (IF PointerPair_is_result(s[i + 1]) THEN 0
              ELSE IterationBound(TaskHeight(s[i + 1])))
           + (IF PointerPair_is_result(s[i + 2]) THEN 0 ELSE Remaining(s, i + 2))

\* The variant of the main loop.
Rank(s) == IF has_last_entry(s) THEN 0 ELSE Remaining(s, 1)

ApplyEventuallyReturnsValidBdd == <>(pc = "done" /\ ContainerInvariants(result))

C9_FalseIffNoOneLookup ==
    /\ pc \in {"output", "done"} => (is_not_false <=> stack[1].left # NodeId_ZERO)
    /\ pc = "done" =>
          /\ (result = new_false) <=> ~is_not_false
          /\ is_not_false => result.nodes = node_cache

\* C9 witness: a run that expanded tasks and ended with ZERO, returning the
\* constant false.
C9_Witness ==
    /\ pc = "done"
    /\ ~is_not_false
    /\ DOMAIN task_cache # {}
    /\ result = new_false

\* C10: when apply exports the node cache, the variable count of the result
\* is the larger of the operands' variable counts.
C10_ExportedVariableCount ==
    (pc = "done" /\ is_not_false) =>
        variable_count(result) =
            Max(variable_count(left_bdd), variable_count(right_bdd))

\* C10 witness: an exported result for operands of different variable counts.
C10_Witness ==
    /\ pc = "done"
    /\ is_not_false
    /\ variable_count(left_bdd) < variable_count(right_bdd)
    /\ variable_count(result) = variable_count(right_bdd)

\* The Bdds the constructors return for the variables of the model.
ConstructedBdds ==
    {new_false, true_with_capacity} \cup {new_variable(v) : v \in 0..(NumVars - 1)}

\* One plus the largest variable of the decision nodes of a Bdd.
LargestVariablePlusOne(bdd) == UsedVariables(bdd.nodes, Len(bdd.nodes))

\* C11 as stated: every Bdd, the constructed ones and the one apply returns,
\* has a variable count equal to one plus the largest variable of its
\* decision nodes, and 0 when it is a constant.
C11_VariableCountIsLargestPlusOne ==
    /\ \A bdd \in ConstructedBdds : variable_count(bdd) = LargestVariablePlusOne(bdd)
    /\ pc = "done" => variable_count(result) = LargestVariablePlusOne(result)

\* C11, amended: the variable count of a constructed Bdd is one plus the
\* largest variable of its decision nodes (0 for the constants); the variable
\* count of the Bdd apply returns is at least that, being the larger of the
\* operands' variable counts when the node cache is exported and 0 for the
\* one-node false.
C11_VariableCountBoundsVariables ==
    /\ \A bdd \in ConstructedBdds : variable_count(bdd) = LargestVariablePlusOne(bdd)
    /\ pc = "done" =>
        /\ variable_count(result) >= LargestVariablePlusOne(result)
        /\ variable_count(result) =
              IF is_not_false
              THEN Max(variable_count(left_bdd), variable_count(right_bdd))
              ELSE 0

\* C11 witness: apply has returned a Bdd whose variable count is greater than
\* one plus the largest variable of its decision nodes.
C11_Witness ==
    /\ pc = "done"
    /\ Len(result.nodes) > 2
    /\ variable_count(result) > LargestVariablePlusOne(result)

\* C12: and(B, false), xor(B, B) and and_not(B, B) return the one-node false;
\* iff(B, B) returns the two terminal nodes with the variable count of B.
C12_IdentitiesWithConstants ==
    pc = "done" =>
        /\ (operation = "and" /\ right_bdd = new_false) => result = new_false
        /\ (operation \in {"xor", "and_not"} /\ right_bdd = left_bdd) =>
                result = new_false
        /\ (operation = "iff" /\ right_bdd = left_bdd) =>
                result = [variable_count |-> variable_count(left_bdd),
                          nodes |-> <<BddNode_ZERO, BddNode_ONE>>]

\* C12 witness: iff(B, B) has returned the constant true for a B with
\* decision nodes, after tasks were expanded and reduced.
C12_Witness ==
    /\ pc = "done"
    /\ operation = "iff"
    /\ right_bdd = left_bdd
    /\ node_count(left_bdd) > 3
    /\ DOMAIN task_cache # {}
    /\ result = [variable_count |-> variable_count(left_bdd),
                 nodes |-> <<BddNode_ZERO, BddNode_ONE>>]

\* C13: once sort_preorder has run on or(B, false) and on B, the two node
\* arrays are equal; both calls have to stay within their stack vectors for
\* there to be two arrays to compare.
C13_OrFalseIsIdentityAfterSort ==
    (pc = "done" /\ operation = "or" /\ right_bdd = new_false) =>
        LET sorted_result == sort_preorder(result)
            sorted_operand == sort_preorder(left_bdd)
        IN /\ ~sorted_result.out_of_bounds
           /\ ~sorted_operand.out_of_bounds
           /\ sorted_result.bdd.nodes = sorted_operand.bdd.nodes

(***************************************************************************)
(* The claims about the sorting functions.                                 *)
(***************************************************************************)
\* The truth assignments to the variables of the diagram that is sorted.
SortAssignments == [0..(variable_count(sort_input) - 1) -> BOOLEAN]

\* The variables perf_testing reads from the decision nodes of its diagram.
PerfVariables == {perf_get_variable(perf_input.nodes[i]) : i \in 3..Len(perf_input.nodes)}
PerfAssignments == [PerfVariables -> BOOLEAN]

RECURSIVE PerfEval(_, _, _)
PerfEval(nodes, id, a) ==
    IF id = NodeId_ZERO THEN FALSE
    ELSE IF id = NodeId_ONE THEN TRUE
    ELSE IF a[perf_get_variable(nodes[id + 1])]
         THEN PerfEval(nodes, perf_get_high_link(nodes[id + 1]), a)
         ELSE PerfEval(nodes, perf_get_low_link(nodes[id + 1]), a)

\* The renumberings of the ids below len that keep 0, 1 and the root len - 1.
Renumberings(len) ==
    {f \in [0..(len - 1) -> 0..(len - 1)] :
        /\ \A i \in {0, 1, len - 1} : i < len => f[i] = i
        /\ \A i, j \in 0..(len - 1) : f[i] = f[j] => i = j}

\* new_nodes holds the nodes of old_nodes under a renumbering that keeps the
\* terminals and the root.
IsRenumbering(old_nodes, new_nodes) ==
    /\ Len(new_nodes) = Len(old_nodes)
    /\ \E f \in Renumberings(Len(old_nodes)) :
        \A i \in 2..(Len(old_nodes) - 1) :
            new_nodes[f[i] + 1] =
                BddNode_pack(old_nodes[i + 1][1], f[old_nodes[i + 1][2]],
                             f[old_nodes[i + 1][3]])

PerfIsRenumbering(old_nodes, new_nodes) ==
    /\ Len(new_nodes) = Len(old_nodes)
    /\ \E f \in Renumberings(Len(old_nodes)) :
        \A i \in 2..(Len(old_nodes) - 1) :
            perf_unpack(new_nodes[f[i] + 1]) =
                [variable |-> perf_get_variable(old_nodes[i + 1]),
                 low |-> f[perf_get_low_link(old_nodes[i + 1])],
                 high |-> f[perf_get_high_link(old_nodes[i + 1])]]

\* The last call of Bdd::sort_preorder returned, and what it left is what it
\* found, renumbered: same function, terminals at 0 and 1, root at len - 1.
SortKeepsFunction ==
    /\ ~sort_crashed
    /\ sort_bdd.nodes[1] = BddNode_ZERO
    /\ Len(sort_before.nodes) > 1 => sort_bdd.nodes[2] = BddNode_ONE
    /\ IsRenumbering(sort_before.nodes, sort_bdd.nodes)
    /\ \A a \in SortAssignments : Value(sort_bdd, a) = Value(sort_before, a)

PerfSortKeepsFunction ==
    /\ ~perf_panicked
    /\ perf_bdd.nodes[1] = perf_ZERO
    /\ Len(perf_before.nodes) > 1 => perf_bdd.nodes[2] = perf_ONE
    /\ PerfIsRenumbering(perf_before.nodes, perf_bdd.nodes)
    /\ \A a \in PerfAssignments :
            PerfEval(perf_bdd.nodes, Len(perf_bdd.nodes) - 1, a) =
                PerfEval(perf_before.nodes, Len(perf_before.nodes) - 1, a)

\* C17: every call of sort_preorder, of src/v2 and of perf_testing, returns
\* a Bdd of the same function as the Bdd it was called on, a renumbering of
\* its nodes that keeps the terminals at 0 and 1 and the root at len - 1.
C17_SortPreorderKeepsFunction ==
    /\ sort_calls > 0 => SortKeepsFunction
    /\ (perf_calls # <<>> /\ perf_calls[Len(perf_calls)] = "sort_preorder") =>
            PerfSortKeepsFunction

\* The low and high links of the nodes of the two kinds of Bdd.
Links(nodes) == [i \in 1..Len(nodes) |-> <<nodes[i][2], nodes[i][3]>>]
PerfLinks(nodes) ==
    [i \in 1..Len(nodes) |-> <<perf_get_low_link(nodes[i]), perf_get_high_link(nodes[i])>>]

\* Both children of every decision node have a smaller index than the node.
LinksPointDown(links) ==
    \A id \in 2..(Len(links) - 1) : links[id + 1][1] < id /\ links[id + 1][2] < id

\* Every link is the index of another node, and every decision node but the
\* root is a child of a node of greater index.
ParentAbove(links) ==
    /\ \A id \in 2..(Len(links) - 1) :
        \A k \in {1, 2} : links[id + 1][k] \in 0..(Len(links) - 1) \ {id}
    /\ \A id \in 2..(Len(links) - 2) :
        \E parent \in (id + 1)..(Len(links) - 1) :
            id \in {links[parent + 1][1], links[parent + 1][2]}

\* The last call was a sort_preorder and it returned a Bdd.
SortReturned == sort_calls > 0 /\ ~sort_crashed
PerfSortPreorderReturned ==
    /\ perf_calls # <<>>
    /\ perf_calls[Len(perf_calls)] = "sort_preorder"
    /\ ~perf_panicked

PerfSortedTwice ==
    /\ Len(perf_calls) >= 2
    /\ perf_calls[Len(perf_calls)] = "sort_preorder"
    /\ perf_calls[Len(perf_calls) - 1] = "sort_preorder"

\* C19: sort_preorder returns, and a second call of sort_preorder leaves the
\* node array exactly as the call before it left it.
C19_SortPreorderIsIdempotent ==
    /\ sort_calls >= 1 => ~sort_crashed
    /\ sort_calls >= 2 => sort_bdd.nodes = sort_before.nodes
    /\ PerfSortedTwice => (~perf_panicked /\ perf_bdd.nodes = perf_before.nodes)

\* C20: in perf_testing, sort_preorder of the post-order copy of a diagram
\* returns the node array that sort_preorder returns for the diagram itself,
\* and so does sort_preorder of the post-order copy of the pre-order copy.
C20_PreorderIgnoresInputLayout ==
    (perf_calls \in {<<"sort_postorder", "sort_preorder">>,
                     <<"sort_preorder", "sort_postorder", "sort_preorder">>}) =>
        /\ ~perf_panicked
        /\ ~perf_sort_preorder(perf_input).panicked
        /\ perf_bdd.nodes = perf_sort_preorder(perf_input).bdd.nodes

\* C20 witness: sort_postorder has changed the layout of the diagram, and
\* sort_preorder has changed the layout of the post-order copy.
C20_Witness ==
    /\ perf_calls = <<"sort_postorder", "sort_preorder">>
    /\ ~perf_panicked
    /\ PerfLinks(perf_before.nodes) # PerfLinks(perf_input.nodes)
    /\ PerfLinks(perf_bdd.nodes) # PerfLinks(perf_before.nodes)

\* and has been called on the Bdds of the variables 0 and 1.
AndOfTwoVariables ==
    /\ pc = "done"
    /\ operation = "and"
    /\ left_bdd = new_variable(0)
    /\ right_bdd = new_variable(1)

\* C15 as stated: and of the variables 0 and 1 returns the four nodes false,
\* true, pack(1, 0, 1) and, as the root at index 3, pack(0, 0, 3).
C15_AndOfVariablesRootLinksToItself ==
    AndOfTwoVariables =>
        result.nodes = <<BddNode_ZERO, BddNode_ONE, BddNode_pack(1, 0, 1),
                         BddNode_pack(0, 0, 3)>>

\* C15, amended: and of the variables 0 and 1 returns the four nodes false,
\* true, pack(1, 0, 1) and, as the root at index 3, pack(0, 0, 2): the high
\* link of the root is the node of variable 1 at index 2.
C15_AndOfVariables ==
    AndOfTwoVariables =>
        result = [variable_count |-> 2,
                  nodes |-> <<BddNode_ZERO, BddNode_ONE, BddNode_pack(1, 0, 1),
                              BddNode_pack(0, 0, 2)>>]

\* C15 witness: the call has returned four nodes with the root at index 3.
C15_Witness ==
    /\ AndOfTwoVariables
    /\ node_count(result) = 4
    /\ root_node(result) = 3
    /\ get_variable(result, 3) = 0

\* The run of the main loop of _u32_apply in which the task cache forgets
\* nothing, from the stack s on, and the Bdd returned after it.
RECURSIVE ExactRun(_, _, _, _)
ExactRun(s, cache, nodes, inf) ==
    LET after == generic_iteration(s, cache, nodes, inf, FALSE)
    IN IF loop_exit(after.stack)
       THEN output(after.node_cache, after.is_not_false,
                   Max(variable_count(left_bdd), variable_count(right_bdd)))
       ELSE ExactRun(after.stack, after.task_cache, after.node_cache,
                     after.is_not_false)

ExactResult ==
    ExactRun(push_task_unchecked(Stack_new,
                 PointerPair_pack(root_node(left_bdd), root_node(right_bdd))),
             TaskCache_new, NodeCache_new, FALSE)

\* The tasks of the stack that have been expanded: their two subtasks, or
\* what is left of them, are the entries directly above.
ExpandedPositions(s) == {p \in 1..(Len(s) - 2) : p % 2 = 1}

C14_OperationCommutes ==
    (/\ pc = "done"
     /\ swapped_result # NoResult
     /\ operation \in {"and", "or", "xor", "iff"}) =>
        \A a \in Assignments : Value(result, a) = Value(swapped_result, a)

\* C14 witness: both calls have returned, for two different operands with
\* decision nodes, and the result has several decision nodes.
C14_Witness ==
    /\ pc = "done"
    /\ swapped_result # NoResult
    /\ operation \in {"and", "or", "xor", "iff"}
    /\ left_bdd # right_bdd
    /\ node_count(left_bdd) > 2
    /\ node_count(swapped_result) > 3
    /\ node_count(result) > 3

(***************************************************************************)
(* The two 64-bit words of a BddNode (src/v2/mod.rs).                      *)
(*                                                                         *)
(* A 64-bit word is the triple of its top 16 bits, the 24 bits below them   *)
(* and its bottom 24 bits, so that every part is a number the model can    *)
(* hold and the masks and shifts of the source keep their widths. A NodeId *)
(* is such a word; an id below 2^48 has 0 as its top part.                  *)
(***************************************************************************)
\* The samples of every part of a packed value are the MaxPackSample + 1
\* smallest and the MaxPackSample + 1 largest values of the part.
MaxPackSample == 1

\* u16::MAX
u16_MAX == 2^16 - 1
\* The largest value of 24 bits.
part_MAX == 2^24 - 1

\* a & b
RECURSIVE bit_and(_, _)
bit_and(a, b) ==
    IF a = 0 \/ b = 0 THEN 0
    ELSE (a % 2) * (b % 2) + 2 * bit_and(a \div 2, b \div 2)

\* a | b
RECURSIVE bit_or(_, _)
bit_or(a, b) ==
    IF a = 0 THEN b
    ELSE IF b = 0 THEN a
    ELSE Max(a % 2, b % 2) + 2 * bit_or(a \div 2, b \div 2)

u64_and(x, y) == <<bit_and(x[1], y[1]), bit_and(x[2], y[2]), bit_and(x[3], y[3])>>
u64_or(x, y) == <<bit_or(x[1], y[1]), bit_or(x[2], y[2]), bit_or(x[3], y[3])>>
\* !x
u64_not(x) == <<u16_MAX - x[1], part_MAX - x[2], part_MAX - x[3]>>
\* u64::from(x) and `x as u64` of a 16-bit x.
u64_from_u16(x) == <<0, 0, x>>
\* x.shl(48): the bottom 16 bits become the top part, the rest is shifted out.
u64_shl_48(x) == <<x[3] % 2^16, 0, 0>>
\* x.shr(48)
u64_shr_48(x) == <<0, 0, x[1]>>
\* x as u16
u64_as_u16(x) == x[3] % 2^16

\* BddNode::VARIABLE_MASK
packed_VARIABLE_MASK == u64_shl_48(u64_from_u16(u16_MAX))
\* BddNode::ID_MASK
packed_ID_MASK == u64_not(packed_VARIABLE_MASK)
\* The words of NodeId::ZERO and NodeId::ONE.
packed_NodeId_ZERO == <<0, 0, 0>>
packed_NodeId_ONE == <<0, 0, 1>>
\* BddNode::ZERO
packed_ZERO == <<packed_VARIABLE_MASK, packed_NodeId_ZERO>>
\* BddNode::ONE
packed_ONE == <<u64_or(packed_VARIABLE_MASK, packed_NodeId_ONE), packed_NodeId_ONE>>

\* BddNode::unpack
packed_unpack(node) ==
    <<u64_as_u16(u64_shr_48(node[1])), u64_and(node[1], packed_ID_MASK), node[2]>>
\* BddNode::high_link
packed_high_link(node) == node[2]
\* BddNode::low_link
packed_low_link(node) == u64_and(node[1], packed_ID_MASK)

\* A slip: the variable is not shifted above the low link.
packed_pack_unshifted(variable, low, high) ==
    <<u64_or(u64_from_u16(variable), low), high>>

\* BddNode::pack
packed_pack(variable, low, high) ==
    <<u64_or(u64_shl_48(u64_from_u16(variable)), low), high>>

\* The sampled values of a part whose largest value is `largest`.
PackSamples(largest) == (0..MaxPackSample) \cup ((largest - MaxPackSample)..largest)
\* The sampled 16-bit variables.
PackVariables == PackSamples(u16_MAX)
\* The sampled ids below 2^48.
PackIds == {<<0, middle, bottom>> : middle \in {0, part_MAX}, bottom \in PackSamples(part_MAX)}
\* The sampled 32-bit variables of perf_testing: on both sides of 2^16.
PerfPackVariables == {high * perf_variable_part + low : high, low \in 0..MaxPackSample}

\* A variable and two ids for BddNode::pack, and a variable for
\* PackedBddNode::pack, which gets the same ids.
InitPack ==
    /\ NoCall
    /\ NoSort
    /\ NoParse
    /\ NoSizeCheck
    /\ NoComparison
    /\ pack_input \in PackVariables \X PackIds \X PackIds \X PerfPackVariables
    /\ packed = <<>>
    /\ unpacked = <<>>
    /\ perf_packed = <<>>
    /\ perf_unpacked = <<>>

apply_vars == <<left_bdd, right_bdd, operation, pc, variables, is_not_false,
                node_cache, task_cache, stack, result>>

\* BddNode::pack(variable, low, high)
Pack ==
    /\ pack_input # <<>>
    /\ packed = <<>>
    /\ packed' = packed_pack(pack_input[1], pack_input[2], pack_input[3])
    /\ UNCHANGED <<apply_vars, swapped_result, sort_vars, limit_vars, compare_vars,
                   pack_input, unpacked,
                   perf_packed, perf_unpacked, text, parsed, perf_parsed>>

\* unpack, low_link and high_link of the packed node.
Unpack ==
    /\ packed # <<>>
    /\ unpacked = <<>>
    /\ unpacked' = <<packed_unpack(packed), packed_low_link(packed),
                     packed_high_link(packed)>>
    /\ UNCHANGED <<apply_vars, swapped_result, sort_vars, limit_vars, compare_vars,
                   pack_input, packed,
                   perf_packed, perf_unpacked, text, parsed, perf_parsed>>

\* PackedBddNode::pack(variable, low, high)
PerfPack ==
    /\ pack_input # <<>>
    /\ perf_packed = <<>>
    /\ perf_packed' = perf_pack(pack_input[4], pack_input[2], pack_input[3])
    /\ UNCHANGED <<apply_vars, swapped_result, sort_vars, limit_vars, compare_vars,
                   pack_input, packed,
                   unpacked, perf_unpacked, text, parsed, perf_parsed>>

\* unpack and get_variable of the packed node.
PerfUnpack ==
    /\ perf_packed # <<>>
    /\ perf_unpacked = <<>>
    /\ perf_unpacked' = <<perf_unpack(perf_packed), perf_get_variable(perf_packed)>>
    /\ UNCHANGED <<apply_vars, swapped_result, sort_vars, limit_vars, compare_vars,
                   pack_input, packed,
                   unpacked, perf_packed, text, parsed, perf_parsed>>

NextPack == Pack \/ Unpack \/ PerfPack \/ PerfUnpack

SpecPack == InitPack /\ [][NextPack]_vars

\* C21: in every state after BddNode::pack(v, low, high) of a 16-bit variable
\* v and ids low and high below 2^48, unpack of the packed node is
\* (v, low, high), low_link is low and high_link is high; and BddNode::ZERO
\* unpacks to (VariableId::UNDEFINED, 0, 0), BddNode::ONE to
\* (VariableId::UNDEFINED, 1, 1).
C21_PackUnpackRoundTrip ==
    /\ unpacked # <<>> =>
        /\ unpacked[1] = <<pack_input[1], pack_input[2], pack_input[3]>>
        /\ unpacked[2] = pack_input[2]
        /\ unpacked[3] = pack_input[3]
    /\ packed_unpack(packed_ZERO)
        = <<VariableId_UNDEFINED, packed_NodeId_ZERO, packed_NodeId_ZERO>>
    /\ packed_unpack(packed_ONE)
        = <<VariableId_UNDEFINED, packed_NodeId_ONE, packed_NodeId_ONE>>

\* The largest variable and the largest ids below 2^48 have been packed and
\* unpacked.
C21_Witness ==
    /\ unpacked # <<>>
    /\ pack_input[1] = u16_MAX - 1
    /\ pack_input[2] = <<0, part_MAX, part_MAX>>
    /\ pack_input[3] = <<0, part_MAX, part_MAX - 1>>
    /\ packed[1] = <<u16_MAX - 1, part_MAX, part_MAX>>

\* C22: in every state after PackedBddNode::pack(v, low, high) of a 32-bit
\* variable v and ids low and high below 2^48, unpack of the packed node is
\* (v, low, high) and get_variable of it is v.
C22_PerfPackUnpackRoundTrip ==
    perf_unpacked # <<>> =>
        /\ perf_unpacked[1]
            = [variable |-> pack_input[4], low |-> pack_input[2], high |-> pack_input[3]]
        /\ perf_unpacked[2] = pack_input[4]

(***************************************************************************)
(* The textual format: Bdd::try_from of src/v2/mod.rs and of               *)
(* src/perf_testing.rs.                                                    *)
(*                                                                         *)
(* A text is the sequence of the pieces between its `|`, a piece the       *)
(* sequence of the items between its `,`. An item is <<"numeral", n>> for   *)
(* the decimal numeral of n, <<"empty", 0>> for the empty string and        *)
(* <<"word", 0>> for any other string; the empty piece has the empty item   *)
(* as its only item.                                                       *)
(***************************************************************************)
\* The largest number of pieces of an enumerated text.
MaxTextPieces == 3

Numeral(n) == <<"numeral", n>>
EmptyItem == <<"empty", 0>>
WordItem == <<"word", 0>>
\* s.is_empty() of a piece s.
piece_is_empty(piece) == Len(piece) = 1 /\ piece[1][1] = "empty"

\* item.parse::<uN>() for N = bits succeeds: the item is a numeral below
\* 2^bits. The numerals of the model are all below 2^31.
parse_unsigned_is_ok(item, bits) ==
    /\ item[1] = "numeral"
    /\ bits < 31 => item[2] < 2^bits

\* The loop of both try_from over the pieces from the i-th on: the error of
\* the first piece that is no record, or the records (variable, low, high)
\* read, the variable having variable_bits bits.
RECURSIVE try_from_records(_, _, _, _)
try_from_records(data, variable_bits, i, records) ==
    IF i > Len(data) THEN <<"Ok", records>>
    ELSE LET piece == data[i]
         IN IF piece_is_empty(piece)
            THEN try_from_records(data, variable_bits, i + 1, records)
            ELSE IF Len(piece) # 3
            THEN <<"Err", "Unexpected node representation", piece>>
            ELSE IF ~parse_unsigned_is_ok(piece[1], variable_bits)
            THEN <<"Err", "Invalid variable numeral", piece[1]>>
            ELSE IF ~parse_unsigned_is_ok(piece[2], 64)
            THEN <<"Err", "Invalid pointer numeral", piece[2]>>
            ELSE IF ~parse_unsigned_is_ok(piece[3], 64)
            THEN <<"Err", "Invalid pointer numeral", piece[3]>>
            ELSE try_from_records(data, variable_bits, i + 1,
                    Append(records, <<piece[1][2], piece[2][2], piece[3][2]>>))

\* The nodes that Bdd::try_from of src/v2 pushes for the records.
Bdd_try_from_nodes(records) ==
    [i \in 1..Len(records) |->
        BddNode_pack(records[i][1], records[i][2], records[i][3])]

\* Bdd::try_from of src/v2: Err, or Ok with the Bdd; nodes[0] of an empty
\* vector panics.
Bdd_try_from(data) ==
    LET read == try_from_records(data, 16, 1, <<>>)
        nodes == Bdd_try_from_nodes(read[2])
    IN IF read[1] = "Err" THEN read
       ELSE IF nodes = <<>> THEN <<"panic", "index out of bounds">>
       ELSE <<"Ok", [variable_count |-> BddNode_unpack(nodes[1]).variable,
                     nodes |-> nodes]>>

\* Bdd::try_from of src/perf_testing.rs: Err, or Ok with the Bdd;
\* nodes.get_mut(0).unwrap() of an empty vector panics.
perf_Bdd_try_from(data) ==
    LET read == try_from_records(data, 32, 1, <<>>)
    IN IF read[1] = "Err" THEN read
       ELSE IF read[2] = <<>> THEN <<"panic", "called Option::unwrap() on a None value">>
       ELSE <<"Ok", perf_try_from(read[2])>>

\* The pieces of the enumerated texts: the empty piece, terminal records in
\* two conventions, records of decision nodes, and pieces that are no record
\* of either parser or of the parser of src/v2.
TextPieces ==
    { <<EmptyItem>>,
      <<Numeral(VariableId_UNDEFINED), Numeral(0), Numeral(0)>>,
      <<Numeral(VariableId_UNDEFINED), Numeral(1), Numeral(1)>>,
      <<Numeral(2), Numeral(0), Numeral(0)>>,
      <<Numeral(1), Numeral(0), Numeral(1)>>,
      <<Numeral(0), Numeral(2), Numeral(1)>>,
      <<Numeral(VariableId_UNDEFINED + 1), Numeral(0), Numeral(1)>>,
      <<Numeral(0), Numeral(1)>>,
      <<Numeral(0), Numeral(1), Numeral(0), Numeral(1)>>,
      <<WordItem, Numeral(0), Numeral(1)>>,
      <<Numeral(0), Numeral(1), EmptyItem>> }

\* The records of the undefined variable are records of terminals, which a
\* text has at its first two places only.
Texts ==
    {data \in UNION {[1..n -> TextPieces] : n \in 0..MaxTextPieces} :
        \A i \in 3..Len(data) : data[i][1] # Numeral(VariableId_UNDEFINED)}

\* A text for both parsers. The text without any `|` is one piece: the empty
\* string is the text of the empty piece.
InitParse ==
    /\ NoCall
    /\ NoSort
    /\ NoPack
    /\ NoSizeCheck
    /\ NoComparison
    /\ text \in Texts \ {<<>>}
    /\ parsed = <<>>
    /\ perf_parsed = <<>>

\* Bdd::try_from(text) of src/v2.
Parse ==
    /\ text # <<>>
    /\ parsed = <<>>
    /\ parsed' = Bdd_try_from(text)
    /\ UNCHANGED <<apply_vars, swapped_result, sort_vars, limit_vars, compare_vars,
                   pack_input, packed,
                   unpacked, perf_packed, perf_unpacked, text, perf_parsed>>

\* Bdd::try_from(text) of src/perf_testing.rs.
PerfParse ==
    /\ text # <<>>
    /\ perf_parsed = <<>>
    /\ perf_parsed' = perf_Bdd_try_from(text)
    /\ UNCHANGED <<apply_vars, swapped_result, sort_vars, limit_vars, compare_vars,
                   pack_input, packed,
                   unpacked, perf_packed, perf_unpacked, text, parsed>>

NextParse == Parse \/ PerfParse

SpecParse == InitParse /\ [][NextParse]_vars

\* The parse returned Ok.
ParsedOk(outcome) == outcome # <<>> /\ outcome[1] = "Ok"

\* C23: in every state after a parse of either parser returned Ok, node 0 of
\* the Bdd is the canonical false node and node 1, if there is one, the
\* canonical true node.
C23_ParsedTerminalsAreCanonical ==
    /\ ParsedOk(parsed) =>
        /\ parsed[2].nodes[1] = BddNode_ZERO
        /\ Len(parsed[2].nodes) > 1 => parsed[2].nodes[2] = BddNode_ONE
    /\ ParsedOk(perf_parsed) =>
        /\ perf_parsed[2].nodes[1] = perf_ZERO
        /\ Len(perf_parsed[2].nodes) > 1 => perf_parsed[2].nodes[2] = perf_ONE

(***************************************************************************)
(* The order of the search (_u32_apply).                                   *)
(***************************************************************************)
\* The low and the high subtask of a task: the pairs of the low and of the
\* high cofactors of its two nodes with respect to its decision variable.
LowSubtask(task) ==
    LET variable == TaskVariable(PointerPair_unpack(task))
    IN PointerPair_pack(cofactors(left_bdd, task.left, variable)[1],
                        cofactors(right_bdd, task.right, variable)[1])
HighSubtask(task) ==
    LET variable == TaskVariable(PointerPair_unpack(task))
    IN PointerPair_pack(cofactors(left_bdd, task.left, variable)[2],
                        cofactors(right_bdd, task.right, variable)[2])

\* The id that the loop computes for a stack, without forgetting, over the
\* node cache `nodes`.
RECURSIVE RunToLastEntry(_, _, _)
RunToLastEntry(s, cache, nodes) ==
    LET after == generic_iteration(s, cache, nodes, FALSE, FALSE)
    IN IF loop_exit(after.stack) THEN after.stack[1].left
       ELSE RunToLastEntry(after.stack, after.task_cache, after.node_cache)

\* The result of a task: the id of its diagram in the node cache.
TaskResult(task) ==
    RunToLastEntry(push_task_unchecked(Stack_new, task), TaskCache_new, node_cache)

\* C25: in every state of the loop, for every expanded task of the stack:
\* while its high subtask lies directly above it, its low subtask lies on
\* that one and is not resolved yet; once the high subtask is the upper of
\* the two entries, where it can be peeked, the entry below it is the result
\* of the low subtask; and an iteration that reduces the task stores for it
\* the common result of its subtasks or the id of the node
\* pack(decision variable, result of the low subtask, result of the high
\* subtask).
C25_LowResolvedBeforeHigh ==
    pc = "loop" =>
        /\ \A p \in ExpandedPositions(stack) :
            LET task == stack[p]
                below == stack[p + 1]
                above == stack[p + 2]
            IN /\ ~PointerPair_is_result(task)
               /\ IF PointerPair_is_result(below)
                  THEN /\ below.left = TaskResult(LowSubtask(task))
                       /\ IF PointerPair_is_result(above)
                          THEN above.left = TaskResult(HighSubtask(task))
                          ELSE above = HighSubtask(task)
                  ELSE /\ below = HighSubtask(task)
                       /\ above = LowSubtask(task)
        /\ \A forgotten \in BOOLEAN :
            LET after == generic_iteration(stack, task_cache, node_cache,
                                           is_not_false, forgotten)
                task == stack[Len(stack) - 2]
                low == TaskResult(LowSubtask(task))
                high == TaskResult(HighSubtask(task))
                id == after.task_cache[PointerPair_unpack(task)]
            IN Len(after.stack) < Len(stack) =>
                IF low = high THEN id = low
                ELSE /\ id >= 2
                     /\ after.node_cache[id + 1]
                          = BddNode_pack(TaskVariable(PointerPair_unpack(task)), low, high)

\* C25 witness: the high subtask of an expanded task is on top of the stack,
\* above the result of the low subtask, which is a decision node, and the
\* two subtasks differ.
C25_Witness ==
    /\ pc = "loop"
    /\ Len(stack) >= 3
    /\ PointerPair_is_result(stack[Len(stack) - 1])
    /\ stack[Len(stack) - 1].left >= 2
    /\ stack[Len(stack)] = HighSubtask(stack[Len(stack) - 2])
    /\ TaskResult(LowSubtask(stack[Len(stack) - 2]))
         # TaskResult(HighSubtask(stack[Len(stack) - 2]))

\* The stack of a run that has started.
Running == pc \in {"loop", "output", "done"}

\* The position of the topmost task of a stack, 0 if it has none.
TopmostTask(s) ==
    IF \A i \in 1..Len(s) : PointerPair_is_result(s[i]) THEN 0
    ELSE CHOOSE i \in 1..Len(s) :
            /\ ~PointerPair_is_result(s[i])
            /\ \A j \in (i + 1)..Len(s) : PointerPair_is_result(s[j])

\* The stack as an iteration leaves it before its reduce step, and whether
\* the reduce step runs.
BeforeReduce(forgotten) ==
    IF has_result(stack) THEN no_expansion(stack, is_not_false)
    ELSE expand_generic(stack, task_cache, is_not_false, forgotten)

\* The reduce step of an iteration runs only when two results are on top of
\* a task.
ReduceOnlyOnTwoResults ==
    pc = "loop" =>
        \A forgotten \in BOOLEAN :
            LET before == BeforeReduce(forgotten)
                length == Len(before.stack)
            IN before.finish_task =>
                /\ length >= 3
                /\ PointerPair_is_result(before.stack[length])
                /\ PointerPair_is_result(before.stack[length - 1])
                /\ ~PointerPair_is_result(before.stack[length - 2])

\* The top of the stack is no result that lies directly on a task, unless it
\* is the only entry.
NoSingleResultOnTop ==
    (Running /\ Len(stack) >= 2 /\ has_result(stack)) =>
        PointerPair_is_result(stack[Len(stack) - 1])

\* C26 as stated: in every state of a run all results of the stack are above
\* its topmost task, and there are at most two of them; the reduce step runs
\* only when two results are on top of a task; and the top is no single
\* result on its task unless it is the only entry.
C26_ResultsOnlyAboveTopmostTask ==
    /\ Running =>
        /\ \A i \in 1..Len(stack) :
              PointerPair_is_result(stack[i]) => i > TopmostTask(stack)
        /\ Len(stack) - TopmostTask(stack) <= 2
    /\ ReduceOnlyOnTwoResults
    /\ NoSingleResultOnTop

\* C26, amended: in every state of a run the stack has an odd number of
\* entries; every entry at an odd position below the top is an expanded
\* task, and the two entries directly above it are its high task under its
\* low task, or the result of its low task under its high task, or, at the
\* top of the stack only, the results of both; the reduce step runs only
\* when two results are on top of a task; and the top is no single result on
\* its task unless it is the only entry.
C26_StackShape ==
    /\ Running =>
        /\ Len(stack) % 2 = 1
        /\ \A p \in ExpandedPositions(stack) :
              /\ ~PointerPair_is_result(stack[p])
              /\ ~PointerPair_is_result(stack[p + 1])
                    => ~PointerPair_is_result(stack[p + 2])
              /\ PointerPair_is_result(stack[p + 2])
                    => (p + 2 = Len(stack) /\ PointerPair_is_result(stack[p + 1]))
    /\ ReduceOnlyOnTwoResults
    /\ NoSingleResultOnTop

\* C26 witness: two expanded tasks each have the result of their low task
\* directly above them, below tasks that are still to be resolved.
C26_Witness ==
    /\ pc = "loop"
    /\ Len(stack) >= 5
    /\ PointerPair_is_result(stack[2])
    /\ PointerPair_is_result(stack[4])
    /\ ~PointerPair_is_result(stack[5])

\* C27: in every state of a run, every task of the stack is a pair (l, r) of
\* an index l of the node array of the left operand and an index r of the
\* node array of the right operand; the tasks peeked by the expand and
\* reduce steps are among them.
C27_TasksAreNodeIndices ==
    Running =>
        \A i \in 1..Len(stack) :
            ~PointerPair_is_result(stack[i]) =>
                /\ stack[i].left \in 0..(node_count(left_bdd) - 1)
                /\ stack[i].right \in 0..(node_count(right_bdd) - 1)

\* C27 witness: the right operand has more nodes than the left one, its root
\* has been expanded as part of the root task, and a task of decision nodes
\* of both operands is on top of the stack.
C27_Witness ==
    /\ pc = "loop"
    /\ node_count(right_bdd) > node_count(left_bdd)
    /\ Len(stack) >= 3
    /\ stack[1].right = root_node(right_bdd)
    /\ ~has_result(stack)
    /\ stack[Len(stack)].left >= 2
    /\ stack[Len(stack)].right >= 2

\* C28: in every state of a run, and between the expand step and the reduce
\* step of every iteration, the stack holds at most
\* 2 * max(L.variable_count, R.variable_count) + 1 entries, the root task and
\* two entries for every variable, and so at most
\* 3 * max(L.variable_count, R.variable_count) + 1.
C28_StackDepthBound ==
    LET bound == 2 * Max(variable_count(left_bdd), variable_count(right_bdd)) + 1
    IN /\ bound <= 3 * Max(variable_count(left_bdd), variable_count(right_bdd)) + 1
       /\ Running => Len(stack) <= bound
       /\ pc = "loop" =>
            \A forgotten \in BOOLEAN : Len(BeforeReduce(forgotten).stack) <= bound

\* C28 witness: both operands decide on every variable they count, every
\* one of these variables has been the decision variable of an expanded task
\* of the stack, and the subtasks of the last are on top.
C28_Witness ==
    /\ pc = "loop"
    /\ variable_count(left_bdd) = NumVars
    /\ variable_count(right_bdd) = NumVars
    /\ Len(stack) = 2 * NumVars + 1
    /\ \A p \in ExpandedPositions(stack) :
          TaskVariable(PointerPair_unpack(stack[p])) = (p - 1) \div 2

\* No pair is the pair of two expanded tasks of the stack.
NoPairInFlightTwice ==
    \A p, q \in ExpandedPositions(stack) : stack[p] = stack[q] => p = q

C30_NewIdsIncrease ==
    pc = "loop" =>
        \A forgotten \in BOOLEAN :
            LET before == BeforeReduce(forgotten)
                after == generic_iteration(stack, task_cache, node_cache,
                                           is_not_false, forgotten)
                id == Len(node_cache)
                node == BddNode_unpack(after.node_cache[id + 1])
            IN after.node_cache # node_cache =>
                /\ Len(after.node_cache) = Len(node_cache) + 1
                /\ SubSeq(after.node_cache, 1, Len(node_cache)) = node_cache
                /\ id > NodeId_ONE
                /\ \A earlier \in 2..(Len(node_cache) - 1) : id > earlier
                /\ node.low = pop_results_low(before.stack)
                /\ node.high = pop_results_high(before.stack)
                /\ node.low \in {NodeId_ZERO, NodeId_ONE} \cup (2..(id - 1))
                /\ node.high \in {NodeId_ZERO, NodeId_ONE} \cup (2..(id - 1))

\* C30 witness: an iteration is about to assign an id to a node that has a
\* node with an id assigned before as a child, while an id assigned even
\* earlier exists.
C30_Witness ==
    /\ pc = "loop"
    /\ Len(node_cache) >= 4
    /\ \E forgotten \in BOOLEAN :
        LET after == generic_iteration(stack, task_cache, node_cache,
                                       is_not_false, forgotten)
        IN /\ Len(after.node_cache) = Len(node_cache) + 1
           /\ after.node_cache[Len(node_cache) + 1][2] = Len(node_cache) - 1

(***************************************************************************)
(* The numbering of sort_preorder.                                         *)
(***************************************************************************)

\* The decision nodes below id in the order in which a depth-first walk that
\* goes to the low child before the high child meets them first, after the
\* nodes of visited.
RECURSIVE FirstVisits(_, _, _)
FirstVisits(links, id, visited) ==
    IF id \in {0, 1} \/ \E k \in 1..Len(visited) : visited[k] = id
    THEN visited
    ELSE FirstVisits(links, links[id + 1][2],
                     FirstVisits(links, links[id + 1][1], Append(visited, id)))

\* The index that the numbering by descending first visit gives to id in an
\* array of len nodes: the terminals keep theirs.
PreorderIndex(order, len, id) ==
    IF id \in {0, 1} THEN id
    ELSE len - 1 - ((CHOOSE k \in 1..Len(order) : order[k] = id) - 1)

\* new holds the variables and links (as <<variable, low, high>>) of the
\* nodes of old, every node at the index of its first visit and every link
\* renamed to the index of the node it pointed to.
IsPreorderNumbering(old, new) ==
    LET len == Len(old)
        order == FirstVisits([i \in 1..len |-> <<old[i][2], old[i][3]>>], len - 1, <<>>)
    IN /\ Len(new) = len
       /\ \A k \in 0..(Len(order) - 1) :
            /\ PreorderIndex(order, len, order[k + 1]) = len - 1 - k
            /\ new[len - k] =
                    <<old[order[k + 1] + 1][1],
                      PreorderIndex(order, len, old[order[k + 1] + 1][2]),
                      PreorderIndex(order, len, old[order[k + 1] + 1][3])>>

\* The nodes of a diagram of perf_testing as <<variable, low, high>>; the
\* variable is read for the decision nodes only, the numbering is about them.
PerfTriples(nodes) ==
    [i \in 1..Len(nodes) |->
        <<IF i <= 2 THEN 0 ELSE perf_get_variable(nodes[i]),
          perf_get_low_link(nodes[i]), perf_get_high_link(nodes[i])>>]

\* C31: in the array that sort_preorder returns, of src/v2 and of
\* perf_testing, the k-th decision node that a depth-first walk from the
\* root, low child before high child, meets first (k = 0 for the root) is at
\* index len - 1 - k, and its links are the new indices of its children.
C31_NumberedByFirstVisit ==
    /\ SortReturned => IsPreorderNumbering(sort_before.nodes, sort_bdd.nodes)
    /\ PerfSortPreorderReturned =>
            IsPreorderNumbering(PerfTriples(perf_before.nodes),
                                PerfTriples(perf_bdd.nodes))

\* C31 witness: both implementations have renumbered a diagram in which the
\* walk meets a shared node below the low child first, and moved its nodes.
C31_Witness ==
    /\ SortReturned
    /\ sort_before = SampleDiamond
    /\ sort_bdd.nodes # sort_before.nodes
    /\ PerfSortPreorderReturned
    /\ Len(perf_before.nodes) = Len(SampleDiamond.nodes)
    /\ PerfLinks(perf_bdd.nodes) # PerfLinks(perf_before.nodes)

(***************************************************************************)
(* The size limits of the compact apply. A node count is a usize, taken    *)
(* here as a word of 64 bits in the three parts of the packed nodes.        *)
(***************************************************************************)
\* The samples of a node count are the MaxSizeSample + 1 smallest counts
\* and, around each of 2^31 and 2^32, the counts from MaxSizeSample + 1
\* below it to MaxSizeSample above it.
MaxSizeSample == 1

\* a ^ b
bit_xor(a, b) == bit_or(a, b) - bit_and(a, b)
u64_xor(x, y) == <<bit_xor(x[1], y[1]), bit_xor(x[2], y[2]), bit_xor(x[3], y[3])>>
\* x < y
u64_lt(x, y) ==
    \/ x[1] < y[1]
    \/ x[1] = y[1] /\ x[2] < y[2]
    \/ x[1] = y[1] /\ x[2] = y[2] /\ x[3] < y[3]
\* 1 << 31: bit 7 of the middle part.
u64_one_shl_31 == <<0, 2^(31 - 24), 0>>

\* u32::MAX as u64
MAX_LEFT_SIZE == <<0, 2^(32 - 24) - 1, part_MAX>>
\* A slip: bit 30 is cleared, not bit 31.
MAX_RIGHT_SIZE_bit_30 == u64_xor(MAX_LEFT_SIZE, <<0, 2^(30 - 24), 0>>)
\* MAX_LEFT_SIZE ^ (1 << 31)
MAX_RIGHT_SIZE == u64_xor(MAX_LEFT_SIZE, u64_one_shl_31)

\* The two debug assertions at the entry of _u32_apply and of apply_u32!
\* (usize::try_from succeeds for both limits): the first that fails panics.
size_preconditions(left_count, right_count) ==
    IF ~u64_lt(left_count, MAX_LEFT_SIZE) THEN <<"panic", "left">>
    ELSE IF ~u64_lt(right_count, MAX_RIGHT_SIZE) THEN <<"panic", "right">>
    ELSE <<"passed", "both">>

\* The node counts within MaxSizeSample of 2^bits, for bits in {31, 32}.
SizesAround(bits) ==
    {<<0, 2^(bits - 24) - 1, part_MAX - k>> : k \in 0..MaxSizeSample} \cup
    {<<0, 2^(bits - 24), k>> : k \in 0..MaxSizeSample}
SizeSamples ==
    {<<0, 0, k>> : k \in 0..MaxSizeSample} \cup SizesAround(31) \cup SizesAround(32)

InitSizes ==
    /\ NoCall
    /\ NoSort
    /\ NoPack
    /\ NoParse
    /\ NoComparison
    /\ size_input \in SizeSamples \X SizeSamples
    /\ size_checked = <<>>

\* The entry of apply on operands of these node counts, with debug assertions.
CheckSizes ==
    /\ size_input # <<>>
    /\ size_checked = <<>>
    /\ size_checked' = size_preconditions(size_input[1], size_input[2])
    /\ UNCHANGED <<apply_vars, swapped_result, sort_vars, format_vars, compare_vars,
                   size_input>>

NextSizes == CheckSizes

SpecSizes == InitSizes /\ [][NextSizes]_vars

\* 2^31 and 2^32 as words.
TwoTo31 == <<0, 2^7, 0>>
TwoTo32 == <<0, 2^8, 0>>
\* x + 1 for a word below 2^48 - 1.
WordSucc(x) ==
    IF x[3] < part_MAX THEN <<x[1], x[2], x[3] + 1>> ELSE <<x[1], x[2] + 1, 0>>

SizesChecked == size_checked # <<>>
SizesPassed == size_checked = <<"passed", "both">>

ExpandsTop(forgotten) ==
    Len(expand_macro(stack, task_cache, is_not_false, forgotten).stack) > Len(stack)

\* A task is the next thing the loop of apply_u32! looks at.
TaskOnTop == pc = "loop" /\ ~has_result(stack)

IsTerminal(id) == is_zero(id) \/ is_one(id)

\* C33: a task of two terminals is resolved by the terminal rules of the
\* operation and never expanded; every task that is expanded has a decision
\* variable min(var(l), var(r)) that is defined and below
\* max(L.variable_count, R.variable_count), neither of the two subtasks pushed
\* is the task itself, and every node created decides on such a variable.
C33_TerminalTasksNeverExpanded ==
    /\ TaskOnTop =>
        LET task == peek_as_task_unchecked(stack)
            left == PointerPair_unpack(task)[1]
            right == PointerPair_unpack(task)[2]
            variable == decision_variable(get_variable(left_bdd, left),
                                          get_variable(right_bdd, right))
        IN /\ (IsTerminal(left) /\ IsTerminal(right)) =>
                /\ u32_zero(operation, left, right) \/ u32_one(operation, left, right)
                /\ \A forgotten \in BOOLEAN : ~ExpandsTop(forgotten)
           /\ \A forgotten \in BOOLEAN :
                ExpandsTop(forgotten) =>
                    LET after == expand_macro(stack, task_cache, is_not_false,
                                              forgotten).stack
                    IN /\ variable # VariableId_UNDEFINED
                       /\ variable < variables
                       /\ Len(after) = Len(stack) + 2
                       /\ after[Len(after)] # task
                       /\ after[Len(after) - 1] # task
    /\ Running =>
        \A i \in 3..Len(node_cache) :
            /\ node_cache[i][1] # VariableId_UNDEFINED
            /\ node_cache[i][1] < variables

\* C33 witness: after a node was created from the results of tasks of two
\* terminals, a task of a terminal and a decision node is about to be
\* expanded.
C33_Witness ==
    /\ TaskOnTop
    /\ Len(node_cache) > 2
    /\ IsTerminal(peek_as_task_unchecked(stack).left)
    /\ ~IsTerminal(peek_as_task_unchecked(stack).right)
    /\ ExpandsTop(TRUE)

(***************************************************************************)
(* The exported array holds the nodes of the result and no others.         *)
(***************************************************************************)
\* No two decision nodes of the array denote the same function, and every
\* decision node denotes a function that depends on its variable: the array
\* has a node for every function below the root that needs one, once.
NoNodeToSpare(nodes) ==
    /\ \A i, j \in 2..(Len(nodes) - 1) :
            i # j => \E a \in Assignments : Eval(nodes, i, a) # Eval(nodes, j, a)
    /\ \A i \in 2..(Len(nodes) - 1) :
            \E a \in Assignments :
                Eval(nodes, nodes[i + 1][2], a) # Eval(nodes, nodes[i + 1][3], a)

C35_StackWritesInBounds ==
    (sort_calls > 0 /\ node_count(sort_before) >= 2) =>
        ~sort_preorder(sort_before).out_of_bounds

(***************************************************************************)
(* How the parsers end.                                                    *)
(***************************************************************************)
\* The text has no record: every piece between two `|` is empty.
NoRecord(data) == \A i \in 1..Len(data) : piece_is_empty(data[i])

\* C36: Bdd::try_from of src/v2 and of src/perf_testing.rs return Ok or Err
\* for every text and never panic, and a text without any non-empty record
\* is answered with Err.
C36_ParsersNeverPanic ==
    /\ parsed # <<>> =>
        /\ parsed[1] \in {"Ok", "Err"}
        /\ NoRecord(text) => parsed[1] = "Err"
    /\ perf_parsed # <<>> =>
        /\ perf_parsed[1] \in {"Ok", "Err"}
        /\ NoRecord(text) => perf_parsed[1] = "Err"

(***************************************************************************)
(* _u32_apply with the lookup table of an operation, and apply_u32! with   *)
(* its two predicates.                                                     *)
(***************************************************************************)
\* C37: from every state of a call, for either answer of the task cache, one
\* iteration of the loop of _u32_apply with lookup(l, r) = ZERO if zero(l, r),
\* ONE if one(l, r), undefined otherwise leaves the stack, the task cache,
\* the node cache and is_not_false as one iteration of apply_u32! does, and
\* leaves the loop when it does; both start from the same setup and return
\* the same Bdd.
C37_GenericAndMacroStepAlike ==
    /\ pc = "loop" =>
        \A forgotten \in BOOLEAN :
            generic_iteration(stack, task_cache, node_cache, is_not_false, forgotten) =
                macro_iteration(stack, task_cache, node_cache, is_not_false, forgotten)
    /\ pc = "done" => result = output(node_cache, is_not_false, variables)

\* C37 witness: with nodes created and is_not_false set by a ONE of the
\* table, the task on top is one that the table leaves undefined.
C37_Witness ==
    /\ TaskOnTop
    /\ is_not_false
    /\ Len(node_cache) > 2
    /\ Len(stack) >= 3
    /\ is_undefined(lookup(operation, peek_as_task_unchecked(stack).left,
                            peek_as_task_unchecked(stack).right))

(***************************************************************************)
(* Bdd::sort_preorder_safe and Bdd::sort_preorder on the same Bdd.         *)
(***************************************************************************)
\* The search of sort_preorder_safe: its stack, pending here, is a Vec that
\* grows with every push.
RECURSIVE sort_preorder_safe_search(_, _, _, _)
sort_preorder_safe_search(nodes, pending, new_id, new_index) ==
    IF Len(pending) = 0
    THEN [new_id |-> new_id, new_index |-> new_index]
    ELSE LET top == pending[Len(pending)]
             rest == SubSeq(pending, 1, Len(pending) - 1)
         IN IF is_zero(top) \/ is_one(top)
            THEN sort_preorder_safe_search(nodes, rest, new_id, new_index)
            ELSE IF new_id[top + 1] = 0
            THEN sort_preorder_safe_search(
                    nodes,
                    rest \o <<nodes[top + 1][3], nodes[top + 1][2]>>,
                    [new_id EXCEPT ![top + 1] = new_index],
                    new_index - 1)
            ELSE sort_preorder_safe_search(nodes, rest, new_id, new_index)

\* Bdd::sort_preorder_safe: it panics on its assertion if the search has not
\* numbered every node; otherwise it writes every node, the two terminals
\* too (the loop is that of sort_preorder, from old_index 0), into an array
\* filled with pack(0, 0, 0).
sort_preorder_safe(bdd) ==
    IF Len(bdd.nodes) < 2
    THEN <<"Ok", bdd>>
    ELSE LET len == Len(bdd.nodes)
             search == sort_preorder_safe_search(
                          bdd.nodes, <<root_node(bdd)>>,
                          [i \in 1..len |-> IF i = 2 THEN 1 ELSE 0], len - 1)
             filled == [i \in 1..len |-> BddNode_pack(0, 0, 0)]
         IN IF search.new_index # 1
            THEN <<"panic", "assertion failed: new_index == 1">>
            ELSE <<"Ok", [bdd EXCEPT !.nodes =
                            sort_preorder_write(bdd.nodes, search.new_id, filled, 0)]>>

\* The diagrams within the bounds that satisfy the container invariants and
\* have a node that is not reachable from the root.
BddsWithSpareNode ==
    {BddOf(nodes) : nodes \in {a \in UNION {NodeArrays(k) : k \in 0..MaxLeftNodes} :
                                    ~AllReachable(a)}}

CompareInputs == SortInputs \cup BddsWithSpareNode

InitCompare ==
    /\ NoCall
    /\ sort_input \in CompareInputs
    /\ sort_before = sort_input
    /\ sort_bdd = sort_input
    /\ sort_calls = 0
    /\ sort_crashed = FALSE
    /\ perf_input = perf_try_from(sort_input.nodes)
    /\ perf_before = perf_input
    /\ perf_bdd = perf_input
    /\ perf_calls = <<>>
    /\ perf_panicked = FALSE
    /\ NoPack
    /\ NoParse
    /\ NoSizeCheck
    /\ NoComparison

\* A call of Bdd::sort_preorder_safe on a copy of the diagram.
SortPreorderSafe ==
    /\ safe_sorted = <<>>
    /\ safe_sorted' = sort_preorder_safe(sort_input)
    /\ UNCHANGED <<apply_vars, swapped_result, sort_vars, format_vars, limit_vars,
                   unchecked_sorted>>

\* A call of Bdd::sort_preorder on a copy of the diagram. A write outside
\* the stack vector is undefined behaviour: the call crashes, or the write
\* goes through and the call returns.
SortPreorderUnchecked ==
    /\ unchecked_sorted = <<>>
    /\ LET call == sort_preorder(sort_input)
       IN \E crashed \in (IF call.out_of_bounds THEN BOOLEAN ELSE {FALSE}) :
            unchecked_sorted' = IF crashed THEN <<"crash", "write out of bounds">>
                                ELSE <<"Ok", call.bdd>>
    /\ UNCHANGED <<apply_vars, swapped_result, sort_vars, format_vars, limit_vars,
                   safe_sorted>>

NextCompare == SortPreorderSafe \/ SortPreorderUnchecked

SpecCompare == InitCompare /\ [][NextCompare]_vars

BothSorted == safe_sorted # <<>> /\ unchecked_sorted # <<>>

\* No cell of the array is one that sort_preorder has left unwritten.
EveryCellWritten(nodes) == \A i \in 1..Len(nodes) : nodes[i] # BddNode_uninitialized

\* C38: on every Bdd on which sort_preorder_safe returns, sort_preorder
\* returns the same node array; on a Bdd on which sort_preorder_safe panics
\* because a node is not reachable from the root, sort_preorder returns an
\* array whose cells 0 and 1 are the two terminals and that has no cell left
\* unwritten.
C38_UncheckedSortAgreesWithSafe ==
    BothSorted =>
        /\ safe_sorted[1] = "Ok" =>
                /\ unchecked_sorted[1] = "Ok"
                /\ unchecked_sorted[2].nodes = safe_sorted[2].nodes
        /\ safe_sorted[1] = "panic" =>
                /\ unchecked_sorted[1] = "Ok"
                /\ unchecked_sorted[2].nodes[1] = BddNode_ZERO
                /\ unchecked_sorted[2].nodes[2] = BddNode_ONE
                /\ EveryCellWritten(unchecked_sorted[2].nodes)
====
